---- MODULE Spec2Model ----
(***************************************************************************)
(* Model of the commitment contracts (Soroban / Rust).                     *)
(*                                                                         *)
(* CommitmentCoreContract (contracts/commitment_core/src/lib.rs): the      *)
(* instance storage (Admin, NftContract, AuthorizedUpdaters), the          *)
(* persistent storage (Commitment(id) records), the ledger timestamp and   *)
(* the outcome of the last invocation.                                     *)
(*                                                                         *)
(* AccessControl (contracts/access_control/src/lib.rs): the Admin, Owner   *)
(* and AuthorizedContract(address) keys of the embedding contract.         *)
(*                                                                         *)
(* AttestationEngineContract (contracts/attestation_engine/src/lib.rs):    *)
(* ADMIN, COMMITMENT_CORE, VERIFIERS, COUNTER, ATTESTATIONS and            *)
(* HEALTH_METRICS.                                                         *)
(*                                                                         *)
(* CommitmentNFTContract (contracts/commitment_nft/src/lib.rs): Admin and  *)
(* TokenCounter.                                                           *)
(*                                                                         *)
(* A panicking invocation, or one that returns Err, is rolled back by the  *)
(* host: it changes no storage and publishes no event.                     *)
(***************************************************************************)
EXTENDS Integers, Sequences, FiniteSets, TLC

VARIABLES
    admin,                \* DataKey::Admin ("none" while the key is unset)
    nft_contract,         \* DataKey::NftContract ("none" while unset)
    authorized_updaters,  \* DataKey::AuthorizedUpdaters : Map<Address, bool>
    commitments,          \* DataKey::Commitment(id) : persistent records
    now,                  \* e.ledger().timestamp()
    result,               \* outcome of the last invocation
    registered,           \* the contract the environment has registered
    ac_admin,             \* AccessControlKey::Admin ("none" while unset)
    ac_owner,             \* AccessControlKey::Owner ("none" while unset)
    authorized_contracts, \* AccessControlKey::AuthorizedContract(a) : bool
    ae_admin,             \* attestation engine ADMIN ("none" while unset)
    commitment_core,      \* attestation engine COMMITMENT_CORE
    verifiers,            \* VERIFIERS : Vec<Address> (read with unwrap_or(empty))
    counter,              \* COUNTER
    attestations,         \* ATTESTATIONS : Map<String, Vec<Attestation>>
    health_metrics,       \* HEALTH_METRICS : Map<String, HealthMetrics>
    nft_admin,            \* NFT DataKey::Admin ("none" while unset)
    token_counter,        \* NFT DataKey::TokenCounter
    tokens,               \* NFT DataKey::Token(token_id) : persistent records
    owner_tokens,         \* NFT DataKey::OwnerTokens(address) : Vec<u32>
    reentrancy_guard      \* NFT DataKey::ReentrancyGuard ("none" while unset)

\* the storage of each contract
coreVars == <<admin, nft_contract, authorized_updaters, commitments, now>>

accessVars == <<ac_admin, ac_owner, authorized_contracts>>

attestVars == <<ae_admin, commitment_core, verifiers, counter, attestations, health_metrics>>

nftVars == <<nft_admin, token_counter, tokens, owner_tokens, reentrancy_guard>>

\* everything a CommitmentCoreContract invocation cannot touch
outsideCore == <<registered, accessVars, attestVars, nftVars>>

vars == <<coreVars, result, registered, accessVars, attestVars, nftVars>>

-----------------------------------------------------------------------------
(* Bounds and input sets *)

SECONDS_PER_DAY == 86400

MaxTime == 86401

Addresses == {"a1", "a2"}

\* the addresses the admin puts on, or takes off, the whitelist
Updaters == {"a2"}

NftAddresses == {"nft"}

Owners == {"owner"}

Ids == {"c1", "c2"}

Amounts == {0, 10000}

Values == {7500, 7999, 8000, 10050, 12550}

\* a stored record starts with current_value = amount - loss for one of these losses
SeedValues == {0, 2500}

MaxLossPercents == {20}

DurationDays == {1}

CreatedAts == {0}

TimePoints == {0} \cup {t \in (SECONDS_PER_DAY - 1)..MaxTime : TRUE}

\* inputs of the pure risk functions, beyond the values stored in records
RiskInitials == {-10000, -3, 0, 3, 1000, 10000}

RiskCurrents ==
    {-12550, -7999, -4, 0, 2, 4, 850, 900, 950, 7500, 7999, 8000, 10000, 10050, 12550}

RiskMaxLoss == {0, 10, 20, 100}

-----------------------------------------------------------------------------
(* Pure helpers *)

Abs(x) == IF x < 0 THEN -x ELSE x

\* Rust's `/` on i128: the quotient is truncated toward zero
TruncDiv(a, b) ==
    LET q == Abs(a) \div Abs(b)
    IN  IF (a < 0) # (b < 0) THEN -q ELSE q

\* the quotient rounded toward minus infinity (not what Rust computes)
FloorDiv(a, b) ==
    LET q == Abs(a) \div Abs(b)
        exact == q * Abs(b) = Abs(a)
    IN  IF (a < 0) # (b < 0) THEN (IF exact THEN -q ELSE -q - 1) ELSE q

calculate_drawdown_percent_floor(initial_value, current_value) ==
    IF initial_value = 0
    THEN 0
    ELSE FloorDiv((initial_value - current_value) * 100, initial_value)

calculate_drawdown_percent_nozero(initial_value, current_value) ==
    IF initial_value = 0
    THEN 100
    ELSE TruncDiv((initial_value - current_value) * 100, initial_value)

calculate_drawdown_percent(initial_value, current_value) ==
    IF initial_value = 0
    THEN 0
    ELSE LET loss == initial_value - current_value
         IN  TruncDiv(loss * 100, initial_value)

check_violation_inclusive(initial_value, current_value, max_loss_percent) ==
    IF initial_value = 0
    THEN FALSE
    ELSE calculate_drawdown_percent(initial_value, current_value) >= max_loss_percent

check_violation(initial_value, current_value, max_loss_percent) ==
    IF initial_value = 0
    THEN FALSE
    ELSE LET drawdown_percent == calculate_drawdown_percent(initial_value, current_value)
             max_loss == max_loss_percent
         IN  drawdown_percent > max_loss

-----------------------------------------------------------------------------
(* Storage helpers *)

\* Map<Address, bool>::get(caller).unwrap_or(false)
MapGet(m, a) == IF a \in DOMAIN m THEN m[a] ELSE FALSE

\* Map<Address, bool>::set(a, b)
MapSet(m, a, b) == [x \in (DOMAIN m) \cup {a} |-> IF x = a THEN b ELSE m[x]]

EmptyMap == [x \in {} |-> FALSE]

is_admin(caller) == admin = caller

is_authorized_updater_everyone(caller) == TRUE

is_authorized_updater(caller) ==
    IF admin = caller
    THEN TRUE
    ELSE MapGet(authorized_updaters, caller)

\* persistent().set(Commitment(id), c)
store_commitment(id, c) ==
    [x \in (DOMAIN commitments) \cup {id} |-> IF x = id THEN c ELSE commitments[x]]

has_commitment(id) == id \in DOMAIN commitments

\* what the last invocation was (operation, caller, and the commitment id or the
\* address the call is about, "-" where it has none) and what it produced: error
\* or "ok", return value, events; args holds further arguments of the call;
\* signer is the address that authorized the invocation, which is the caller
\* wherever the call is not refused by require_auth
Outcome(op, caller, id, err, val, events) ==
    [op |-> op, caller |-> caller, id |-> id, err |-> err, val |-> val,
     events |-> events, args |-> <<>>, signer |-> caller]

Fail(op, caller, id, err) ==
    /\ result' = Outcome(op, caller, id, err, <<>>, <<>>)
    /\ UNCHANGED <<admin, nft_contract, authorized_updaters, commitments, now>>
    /\ UNCHANGED outsideCore

\* caller.require_auth() refuses an invocation that signer, not caller, authorized
FailAuth(op, signer, caller, id) ==
    /\ result' = [Outcome(op, caller, id, "AuthError", <<>>, <<>>) EXCEPT !.signer = signer]
    /\ UNCHANGED <<admin, nft_contract, authorized_updaters, commitments, now>>
    /\ UNCHANGED outsideCore

-----------------------------------------------------------------------------
(* Initial state: the contract is registered, its storage is empty *)

Init ==
    /\ admin = "none"
    /\ nft_contract = "none"
    /\ authorized_updaters = EmptyMap
    /\ commitments = [x \in {} |-> 0]
    /\ now = 0
    /\ result = Outcome("none", "-", "-", "ok", <<>>, <<>>)
    /\ registered = "commitment_core"
    /\ ac_admin = "none"
    /\ ac_owner = "none"
    /\ authorized_contracts = EmptyMap
    /\ ae_admin = "none"
    /\ commitment_core = "none"
    /\ verifiers = <<>>
    /\ counter = 0
    /\ attestations = [x \in {} |-> <<>>]
    /\ health_metrics = [x \in {} |-> 0]
    /\ nft_admin = "none"
    /\ token_counter = 0
    /\ tokens = [x \in {} |-> 0]
    /\ owner_tokens = [x \in {} |-> <<>>]
    /\ reentrancy_guard = "none"

-----------------------------------------------------------------------------
(* Queries on the stored state *)

\* check_violations once the commitment is read from storage, at ledger time
\* current_time
check_violations_no_expiry(commitment, current_time) ==
    \/ check_violation(commitment.amount, commitment.current_value,
                       commitment.rules.max_loss_percent)
    \/ commitment.status = "violated"

check_violations_exclusive(commitment, current_time) ==
    \/ check_violation(commitment.amount, commitment.current_value,
                       commitment.rules.max_loss_percent)
    \/ current_time > commitment.expires_at
    \/ commitment.status = "violated"

check_violations_status_only(commitment, current_time) ==
    commitment.status = "violated"

check_violations(commitment, current_time) ==
    LET is_violated == check_violation(commitment.amount, commitment.current_value,
                                       commitment.rules.max_loss_percent)
    IN  IF is_violated
        THEN TRUE
        ELSE IF current_time >= commitment.expires_at
        THEN TRUE
        ELSE IF commitment.status = "violated"
        THEN TRUE
        ELSE FALSE

\* get_violation_details once the commitment is read from storage:
\* (has_violations, loss_violated, duration_violated, loss_percent, time_remaining)
get_violation_details(commitment, current_time) ==
    LET loss_violated == check_violation(commitment.amount, commitment.current_value,
                                         commitment.rules.max_loss_percent)
        duration_violated == current_time >= commitment.expires_at
        loss_percent == calculate_drawdown_percent(commitment.amount,
                                                   commitment.current_value)
        time_remaining == IF current_time < commitment.expires_at
                          THEN commitment.expires_at - current_time
                          ELSE 0
    IN  <<loss_violated \/ duration_violated, loss_violated, duration_violated,
          loss_percent, time_remaining>>

-----------------------------------------------------------------------------
(* Operations of CommitmentCoreContract *)

Initialize(a, n) ==
    /\ admin' = a
    /\ nft_contract' = n
    /\ authorized_updaters' = EmptyMap
    /\ result' = Outcome("initialize", "-", "-", "ok", <<>>, <<>>)
    /\ UNCHANGED <<commitments, now, outsideCore>>

AddAuthorizedUpdater(signer, caller, updater) ==
    IF signer # caller
    THEN FailAuth("add_authorized_updater", signer, caller, updater)
    ELSE IF admin = "none"
    THEN Fail("add_authorized_updater", caller, updater, "AdminNotInitialized")
    ELSE IF ~is_admin(caller)
    THEN Fail("add_authorized_updater", caller, updater, "OnlyAdmin")
    ELSE /\ authorized_updaters' = MapSet(authorized_updaters, updater, TRUE)
         /\ result' = Outcome("add_authorized_updater", caller, updater, "ok", <<>>, <<>>)
         /\ UNCHANGED <<admin, nft_contract, commitments, now, outsideCore>>

RemoveAuthorizedUpdater(signer, caller, updater) ==
    IF signer # caller
    THEN FailAuth("remove_authorized_updater", signer, caller, updater)
    ELSE IF admin = "none"
    THEN Fail("remove_authorized_updater", caller, updater, "AdminNotInitialized")
    ELSE IF ~is_admin(caller)
    THEN Fail("remove_authorized_updater", caller, updater, "OnlyAdmin")
    ELSE /\ authorized_updaters' = MapSet(authorized_updaters, updater, FALSE)
         /\ result' = Outcome("remove_authorized_updater", caller, updater, "ok", <<>>, <<>>)
         /\ UNCHANGED <<admin, nft_contract, commitments, now, outsideCore>>

\* struct CommitmentRules
CommitmentRules(duration_days, max_loss_percent, commitment_type) ==
    [ duration_days      |-> duration_days,
      max_loss_percent   |-> max_loss_percent,
      commitment_type    |-> commitment_type,
      early_exit_penalty |-> 10,
      min_fee_threshold  |-> 1000 ]

\* create_commitment is a stub: it checks nothing, stores nothing and returns a
\* placeholder id
CreateCommitment(owner, amount, asset, rules) ==
    /\ result' = [Outcome("create_commitment", owner, "-", "ok",
                          <<"commitment_id_placeholder">>, <<>>)
                     EXCEPT !.args = <<amount, asset, rules>>]
    /\ UNCHANGED <<admin, nft_contract, authorized_updaters, commitments, now, outsideCore>>

\* early_exit is a stub: it checks nothing and changes nothing
EarlyExit(id, caller) ==
    /\ result' = Outcome("early_exit", caller, id, "ok", <<>>, <<>>)
    /\ UNCHANGED <<admin, nft_contract, authorized_updaters, commitments, now, outsideCore>>

\* settle is a stub: it checks nothing and changes nothing
Settle(id) ==
    /\ result' = Outcome("settle", "-", id, "ok", <<>>, <<>>)
    /\ UNCHANGED <<admin, nft_contract, authorized_updaters, commitments, now, outsideCore>>

GetCommitment(id) ==
    IF ~has_commitment(id)
    THEN Fail("get_commitment", "-", id, "CommitmentNotFound")
    ELSE /\ result' = Outcome("get_commitment", "-", id, "ok", <<commitments[id]>>, <<>>)
         /\ UNCHANGED <<admin, nft_contract, authorized_updaters, commitments, now, outsideCore>>

UpdatedCommitment_never_violated(commitment, new_value) ==
    [commitment EXCEPT !.current_value = new_value]

UpdatedCommitment_rebasing(commitment, new_value) ==
    LET is_violated == check_violation(commitment.amount, new_value,
                                       commitment.rules.max_loss_percent)
    IN  [commitment EXCEPT !.current_value = new_value,
                           !.amount = new_value,
                           !.status = IF is_violated THEN "violated" ELSE @]

UpdatedCommitment_always_violated(commitment, new_value) ==
    [commitment EXCEPT !.current_value = new_value, !.status = "violated"]

\* the record update_value writes and the events it publishes
UpdatedCommitment(commitment, new_value) ==
    LET is_violated == check_violation(commitment.amount, new_value,
                                       commitment.rules.max_loss_percent)
    IN  [commitment EXCEPT !.current_value = new_value,
                           !.status = IF is_violated THEN "violated" ELSE @]

UpdateEvents(id, commitment, new_value) ==
    LET old_value == commitment.current_value
        initial_value == commitment.amount
        drawdown_percent == calculate_drawdown_percent(initial_value, new_value)
        is_violated == check_violation(initial_value, new_value,
                                       commitment.rules.max_loss_percent)
        value_updated == <<"ValUpdate", id, old_value, new_value, drawdown_percent,
                           is_violated>>
        violation == <<"Violation", id, initial_value, new_value, drawdown_percent,
                       commitment.rules.max_loss_percent>>
    IN  IF is_violated THEN <<violation, value_updated>> ELSE <<value_updated>>

UpdateValue_reviving(signer, caller, id, new_value) ==
    IF signer # caller
    THEN FailAuth("update_value", signer, caller, id)
    ELSE IF admin = "none"
    THEN Fail("update_value", caller, id, "AdminNotInitialized")
    ELSE IF ~is_authorized_updater(caller)
    THEN Fail("update_value", caller, id, "NotAuthorized")
    ELSE IF ~has_commitment(id)
    THEN Fail("update_value", caller, id, "CommitmentNotFound")
    ELSE /\ commitments' = store_commitment(id,
                [UpdatedCommitment(commitments[id], new_value) EXCEPT
                    !.status = IF check_violation(commitments[id].amount, new_value,
                                                  commitments[id].rules.max_loss_percent)
                               THEN "violated" ELSE "active"])
         /\ result' = Outcome("update_value", caller, id, "ok", <<>>,
                              UpdateEvents(id, commitments[id], new_value))
         /\ UNCHANGED <<admin, nft_contract, authorized_updaters, now, outsideCore>>

UpdateValue_no_status_check(signer, caller, id, new_value) ==
    IF signer # caller
    THEN FailAuth("update_value", signer, caller, id)
    ELSE IF admin = "none"
    THEN Fail("update_value", caller, id, "AdminNotInitialized")
    ELSE IF ~is_authorized_updater(caller)
    THEN Fail("update_value", caller, id, "NotAuthorized")
    ELSE IF ~has_commitment(id)
    THEN Fail("update_value", caller, id, "CommitmentNotFound")
    ELSE /\ commitments' = store_commitment(id, UpdatedCommitment(commitments[id], new_value))
         /\ result' = Outcome("update_value", caller, id, "ok", <<>>,
                              UpdateEvents(id, commitments[id], new_value))
         /\ UNCHANGED <<admin, nft_contract, authorized_updaters, now, outsideCore>>

UpdateValue(signer, caller, id, new_value) ==
    IF signer # caller
    THEN FailAuth("update_value", signer, caller, id)
    ELSE IF admin = "none"
    THEN Fail("update_value", caller, id, "AdminNotInitialized")
    ELSE IF ~is_authorized_updater(caller)
    THEN Fail("update_value", caller, id, "NotAuthorized")
    ELSE IF ~has_commitment(id)
    THEN Fail("update_value", caller, id, "CommitmentNotFound")
    ELSE IF commitments[id].status # "active"
    THEN Fail("update_value", caller, id, "NonActive")
    ELSE /\ commitments' = store_commitment(id, UpdatedCommitment(commitments[id], new_value))
         /\ result' = Outcome("update_value", caller, id, "ok", <<>>,
                              UpdateEvents(id, commitments[id], new_value))
         /\ UNCHANGED <<admin, nft_contract, authorized_updaters, now, outsideCore>>

CheckViolations_marking(id) ==
    IF ~has_commitment(id)
    THEN Fail("check_violations", "-", id, "CommitmentNotFound")
    ELSE /\ result' = Outcome("check_violations", "-", id, "ok", <<check_violations(commitments[id], now)>>, <<>>)
         /\ commitments' = IF check_violations(commitments[id], now)
                           THEN [commitments EXCEPT ![id].status = "violated"]
                           ELSE commitments
         /\ UNCHANGED <<admin, nft_contract, authorized_updaters, now, outsideCore>>

CheckViolations(id) ==
    IF ~has_commitment(id)
    THEN Fail("check_violations", "-", id, "CommitmentNotFound")
    ELSE /\ result' = Outcome("check_violations", "-", id, "ok", <<check_violations(commitments[id], now)>>, <<>>)
         /\ UNCHANGED <<admin, nft_contract, authorized_updaters, commitments, now, outsideCore>>

GetViolationDetails(id) ==
    IF ~has_commitment(id)
    THEN Fail("get_violation_details", "-", id, "CommitmentNotFound")
    ELSE /\ result' = Outcome("get_violation_details", "-", id, "ok",
                              get_violation_details(commitments[id], now), <<>>)
         /\ UNCHANGED <<admin, nft_contract, authorized_updaters, commitments, now, outsideCore>>

-----------------------------------------------------------------------------
(* Environment *)

\* the record built by the test helper create_test_commitment
TestCommitment(id, owner, amount, current_value, max_loss_percent, duration_days, created_at) ==
    [ commitment_id |-> id,
      owner         |-> owner,
      nft_token_id  |-> 1,
      rules         |-> [ duration_days      |-> duration_days,
                          max_loss_percent   |-> max_loss_percent,
                          commitment_type    |-> "balanced",
                          early_exit_penalty |-> 10,
                          min_fee_threshold  |-> 1000 ],
      amount        |-> amount,
      asset_address |-> "asset",
      created_at    |-> created_at,
      expires_at    |-> created_at + duration_days * SECONDS_PER_DAY,
      current_value |-> current_value,
      status        |-> "active" ]

\* a commitment record is placed in persistent storage under a fresh id
StoreTestCommitment(id, owner, amount, current_value, max_loss_percent, duration_days, created_at) ==
    /\ ~has_commitment(id)
    /\ commitments' = store_commitment(id,
            TestCommitment(id, owner, amount, current_value, max_loss_percent,
                           duration_days, created_at))
    /\ result' = Outcome("store_commitment", "-", id, "ok", <<>>, <<>>)
    /\ UNCHANGED <<admin, nft_contract, authorized_updaters, now, outsideCore>>

\* the ledger timestamp only moves forward
AdvanceTime(t) ==
    /\ t > now
    /\ t <= MaxTime
    /\ now' = t
    /\ result' = Outcome("advance_time", "-", "-", "ok", <<>>, <<>>)
    /\ UNCHANGED <<admin, nft_contract, authorized_updaters, commitments, outsideCore>>

-----------------------------------------------------------------------------
(* AccessControl: admin, owner and whitelist of the embedding contract *)

\* the addresses that call, and are named in, the access-control operations
Parties == {"a1", "a2"}

ac_is_admin_anyone(address) == TRUE

\* get_admin(e).map(|admin| admin == *address).unwrap_or(false)
ac_is_admin(address) == ac_admin # "none" /\ ac_admin = address

ac_is_owner(address) == ac_owner # "none" /\ ac_owner = address

ac_is_authorized(contract_address) ==
    IF ac_is_admin(contract_address)
    THEN TRUE
    ELSE MapGet(authorized_contracts, contract_address)

\* instance().remove(AuthorizedContract(a))
MapRemove(m, a) == [x \in (DOMAIN m) \ {a} |-> m[x]]

FailAccess(op, caller, id, err) ==
    /\ result' = Outcome(op, caller, id, err, <<>>, <<>>)
    /\ UNCHANGED <<coreVars, registered, accessVars, attestVars, nftVars>>

FailAccessAuth(op, signer, caller, id) ==
    /\ result' = [Outcome(op, caller, id, "AuthError", <<>>, <<>>) EXCEPT !.signer = signer]
    /\ UNCHANGED <<coreVars, registered, accessVars, attestVars, nftVars>>

InitAdmin_unguarded(a) ==
    /\ ac_admin' = a
    /\ result' = Outcome("init_admin", "-", a, "ok", <<>>, <<>>)
    /\ UNCHANGED <<coreVars, registered, ac_owner, authorized_contracts, attestVars, nftVars>>

InitAdmin(a) ==
    IF ac_admin # "none"
    THEN FailAccess("init_admin", "-", a, "NotInitialized")
    ELSE /\ ac_admin' = a
         /\ result' = Outcome("init_admin", "-", a, "ok", <<>>, <<>>)
         /\ UNCHANGED <<coreVars, registered, ac_owner, authorized_contracts, attestVars, nftVars>>

InitOwner(o) ==
    /\ ac_owner' = o
    /\ result' = Outcome("init_owner", "-", o, "ok", <<>>, <<>>)
    /\ UNCHANGED <<coreVars, registered, ac_admin, authorized_contracts, attestVars, nftVars>>

\* require_admin and require_authorized as gates of their own
RequireAdmin(signer, caller) ==
    IF signer # caller
    THEN FailAccessAuth("require_admin", signer, caller, "-")
    ELSE IF ~ac_is_admin(caller)
    THEN FailAccess("require_admin", caller, "-", "Unauthorized")
    ELSE /\ result' = Outcome("require_admin", caller, "-", "ok", <<>>, <<>>)
         /\ UNCHANGED <<coreVars, registered, accessVars, attestVars, nftVars>>

RequireAuthorized(signer, caller) ==
    IF signer # caller
    THEN FailAccessAuth("require_authorized", signer, caller, "-")
    ELSE IF ~ac_is_authorized(caller)
    THEN FailAccess("require_authorized", caller, "-", "Unauthorized")
    ELSE /\ result' = Outcome("require_authorized", caller, "-", "ok", <<>>, <<>>)
         /\ UNCHANGED <<coreVars, registered, accessVars, attestVars, nftVars>>

AddAuthorizedContract_write_first(signer, caller, contract_address) ==
    IF signer # caller
    THEN FailAccessAuth("add_authorized_contract", signer, caller, contract_address)
    ELSE IF ~ac_is_admin(caller)
    THEN FailAccess("add_authorized_contract", caller, contract_address, "Unauthorized")
    ELSE /\ authorized_contracts' = MapSet(authorized_contracts, contract_address, TRUE)
         /\ result' = IF ac_is_authorized(contract_address)
                      THEN Outcome("add_authorized_contract", caller, contract_address,
                                   "AlreadyAuthorized", <<>>, <<>>)
                      ELSE Outcome("add_authorized_contract", caller, contract_address, "ok",
                                   <<>>, << <<"auth_add", caller, contract_address>> >>)
         /\ UNCHANGED <<coreVars, registered, ac_admin, ac_owner, attestVars, nftVars>>

AddAuthorizedContract(signer, caller, contract_address) ==
    IF signer # caller
    THEN FailAccessAuth("add_authorized_contract", signer, caller, contract_address)
    ELSE IF ~ac_is_admin(caller)
    THEN FailAccess("add_authorized_contract", caller, contract_address, "Unauthorized")
    ELSE IF ac_is_authorized(contract_address)
    THEN FailAccess("add_authorized_contract", caller, contract_address, "AlreadyAuthorized")
    ELSE /\ authorized_contracts' = MapSet(authorized_contracts, contract_address, TRUE)
         /\ result' = Outcome("add_authorized_contract", caller, contract_address, "ok",
                              <<>>, << <<"auth_add", caller, contract_address>> >>)
         /\ UNCHANGED <<coreVars, registered, ac_admin, ac_owner, attestVars, nftVars>>

RemoveAuthorizedContract(signer, caller, contract_address) ==
    IF signer # caller
    THEN FailAccessAuth("remove_authorized_contract", signer, caller, contract_address)
    ELSE IF ~ac_is_admin(caller)
    THEN FailAccess("remove_authorized_contract", caller, contract_address, "Unauthorized")
    ELSE IF ~ac_is_authorized(contract_address)
    THEN FailAccess("remove_authorized_contract", caller, contract_address, "NotAuthorized")
    ELSE /\ authorized_contracts' = MapRemove(authorized_contracts, contract_address)
         /\ result' = Outcome("remove_authorized_contract", caller, contract_address, "ok",
                              <<>>, << <<"auth_rm", caller, contract_address>> >>)
         /\ UNCHANGED <<coreVars, registered, ac_admin, ac_owner, attestVars, nftVars>>

UpdateAdmin_unchecked(signer, caller, new_admin) ==
    /\ ac_admin' = new_admin
    /\ result' = Outcome("update_admin", caller, new_admin, "ok", <<>>,
                         << <<"admin_upd", caller, ac_admin, new_admin>> >>)
    /\ UNCHANGED <<coreVars, registered, ac_owner, authorized_contracts, attestVars, nftVars>>

UpdateAdmin(signer, caller, new_admin) ==
    IF signer # caller
    THEN FailAccessAuth("update_admin", signer, caller, new_admin)
    ELSE IF ~ac_is_admin(caller)
    THEN FailAccess("update_admin", caller, new_admin, "Unauthorized")
    ELSE /\ ac_admin' = new_admin
         /\ result' = Outcome("update_admin", caller, new_admin, "ok", <<>>,
                              << <<"admin_upd", caller, ac_admin, new_admin>> >>)
         /\ UNCHANGED <<coreVars, registered, ac_owner, authorized_contracts, attestVars, nftVars>>

UpdateOwner(signer, caller, new_owner) ==
    IF signer # caller
    THEN FailAccessAuth("update_owner", signer, caller, new_owner)
    ELSE IF ~ac_is_owner(caller)
    THEN FailAccess("update_owner", caller, new_owner, "Unauthorized")
    ELSE /\ ac_owner' = new_owner
         /\ result' = Outcome("update_owner", caller, new_owner, "ok", <<>>,
                              << <<"owner_upd", caller, ac_owner, new_owner>> >>)
         /\ UNCHANGED <<coreVars, registered, ac_admin, authorized_contracts, attestVars, nftVars>>

-----------------------------------------------------------------------------
(* AttestationEngineContract *)

\* the timestamp the engine writes instead of the ledger time
HARDCODED_TIMESTAMP == 12345

\* the largest fees_generated the model lets record_fees reach
MaxFees == 200

AttestIds == {"c1", "c2"}

FeeAmounts == {100}

DrawdownPercents == {15}

AttestationTypes == {"health_check"}

is_authorized_verifier_anyone(verifier) == TRUE

is_authorized_verifier(verifier) ==
    \E i \in 1..Len(verifiers) : verifiers[i] = verifier

\* the metrics get_health_metrics_internal returns for an id without an entry
DefaultHealthMetrics(id) ==
    [ commitment_id       |-> id,
      current_value       |-> 0,
      initial_value       |-> 0,
      drawdown_percent    |-> 0,
      fees_generated      |-> 0,
      volatility_exposure |-> 0,
      last_attestation    |-> 0,
      compliance_score    |-> 0 ]

get_health_metrics_internal(id) ==
    IF id \in DOMAIN health_metrics THEN health_metrics[id] ELSE DefaultHealthMetrics(id)

store_health_metrics(id, metrics) ==
    [x \in (DOMAIN health_metrics) \cup {id} |-> IF x = id THEN metrics ELSE health_metrics[x]]

get_attestations_internal(id) ==
    IF id \in DOMAIN attestations THEN attestations[id] ELSE <<>>

\* the list without its first occurrence of verifier
RemoveFirst(list, verifier) ==
    IF \E i \in 1..Len(list) : list[i] = verifier
    THEN LET i == CHOOSE k \in 1..Len(list) :
                      /\ list[k] = verifier
                      /\ \A j \in 1..(k - 1) : list[j] # verifier
         IN  SubSeq(list, 1, i - 1) \o SubSeq(list, i + 1, Len(list))
    ELSE list

FailAttest(op, caller, id, err) ==
    /\ result' = Outcome(op, caller, id, err, <<>>, <<>>)
    /\ UNCHANGED <<coreVars, registered, accessVars, attestVars, nftVars>>

AttestationInitialize_unguarded(a, core) ==
    /\ ae_admin' = a
    /\ commitment_core' = core
    /\ counter' = 0
    /\ verifiers' = <<>>
    /\ result' = Outcome("attestation_initialize", "-", a, "ok", <<>>, <<>>)
    /\ UNCHANGED <<coreVars, registered, accessVars, attestations, health_metrics, nftVars>>

AttestationInitialize(a, core) ==
    IF ae_admin # "none"
    THEN FailAttest("attestation_initialize", "-", a, "AlreadyInitialized")
    ELSE /\ ae_admin' = a
         /\ commitment_core' = core
         /\ counter' = 0
         /\ verifiers' = <<>>
         /\ result' = Outcome("attestation_initialize", "-", a, "ok", <<>>, <<>>)
         /\ UNCHANGED <<coreVars, registered, accessVars, attestations, health_metrics, nftVars>>

\* the stored admin must authorize the invocation; signer is who does authorize it
AddAuthorizedVerifier(signer, verifier) ==
    IF ae_admin = "none"
    THEN FailAttest("add_authorized_verifier", signer, verifier, "AdminNotInitialized")
    ELSE IF signer # ae_admin
    THEN FailAttest("add_authorized_verifier", signer, verifier, "AuthError")
    ELSE /\ verifiers' = IF ~is_authorized_verifier(verifier)
                         THEN Append(verifiers, verifier)
                         ELSE verifiers
         /\ result' = Outcome("add_authorized_verifier", signer, verifier, "ok", <<>>, <<>>)
         /\ UNCHANGED <<coreVars, registered, accessVars, ae_admin, commitment_core, counter,
                        attestations, health_metrics, nftVars>>

RemoveAuthorizedVerifier(signer, verifier) ==
    IF ae_admin = "none"
    THEN FailAttest("remove_authorized_verifier", signer, verifier, "AdminNotInitialized")
    ELSE IF signer # ae_admin
    THEN FailAttest("remove_authorized_verifier", signer, verifier, "AuthError")
    ELSE /\ verifiers' = RemoveFirst(verifiers, verifier)
         /\ result' = Outcome("remove_authorized_verifier", signer, verifier, "ok", <<>>, <<>>)
         /\ UNCHANGED <<coreVars, registered, accessVars, ae_admin, commitment_core, counter,
                        attestations, health_metrics, nftVars>>

IsAuthorizedVerifier(verifier) ==
    /\ result' = Outcome("is_authorized_verifier", "-", verifier, "ok",
                         <<is_authorized_verifier(verifier)>>, <<>>)
    /\ UNCHANGED <<coreVars, registered, accessVars, attestVars, nftVars>>

\* attest builds the record and drops it: the store_attestation call is commented out
\* nothing in attest asks verified_by to authorize: signer is whoever invokes it
Attest(signer, id, attestation_type, verified_by) ==
    IF ~is_authorized_verifier(verified_by)
    THEN /\ result' = [Outcome("attest", verified_by, id, "UnauthorizedVerifier", <<>>, <<>>)
                          EXCEPT !.signer = signer]
         /\ UNCHANGED <<coreVars, registered, accessVars, attestVars, nftVars>>
    ELSE /\ result' = [Outcome("attest", verified_by, id, "ok", <<>>, <<>>)
                          EXCEPT !.args = <<attestation_type>>, !.signer = signer]
         /\ UNCHANGED <<coreVars, registered, accessVars, attestVars, nftVars>>

GetHealthMetrics(id) ==
    /\ result' = Outcome("get_health_metrics", "-", id, "ok",
                         <<get_health_metrics_internal(id)>>, <<>>)
    /\ UNCHANGED <<coreVars, registered, accessVars, attestVars, nftVars>>

RecordFees_overwriting(signer, id, fee_amount) ==
    LET metrics == get_health_metrics_internal(id)
    IN  /\ metrics.fees_generated + fee_amount <= MaxFees
        /\ health_metrics' = store_health_metrics(id,
                [metrics EXCEPT !.fees_generated = fee_amount,
                                !.last_attestation = HARDCODED_TIMESTAMP])
        /\ result' = [Outcome("record_fees", signer, id, "ok", <<>>, <<>>)
                         EXCEPT !.args = <<fee_amount>>]
        /\ UNCHANGED <<coreVars, registered, accessVars, ae_admin, commitment_core, verifiers,
                       counter, attestations, nftVars>>

\* record_fees, record_drawdown, store_health_metrics and update_health_metrics
\* ask for no authorization: signer is whoever invokes them
RecordFees(signer, id, fee_amount) ==
    LET metrics == get_health_metrics_internal(id)
    IN  /\ metrics.fees_generated + fee_amount <= MaxFees
        /\ health_metrics' = store_health_metrics(id,
                [metrics EXCEPT !.fees_generated = @ + fee_amount,
                                !.last_attestation = HARDCODED_TIMESTAMP])
        /\ result' = [Outcome("record_fees", signer, id, "ok", <<>>, <<>>)
                         EXCEPT !.args = <<fee_amount>>]
        /\ UNCHANGED <<coreVars, registered, accessVars, ae_admin, commitment_core, verifiers,
                       counter, attestations, nftVars>>

RecordDrawdown(signer, id, drawdown_percent) ==
    LET metrics == get_health_metrics_internal(id)
    IN  /\ health_metrics' = store_health_metrics(id,
                [metrics EXCEPT !.drawdown_percent = drawdown_percent,
                                !.last_attestation = HARDCODED_TIMESTAMP])
        /\ result' = [Outcome("record_drawdown", signer, id, "ok", <<>>, <<>>)
                         EXCEPT !.args = <<drawdown_percent>>]
        /\ UNCHANGED <<coreVars, registered, accessVars, ae_admin, commitment_core, verifiers,
                       counter, attestations, nftVars>>

StoreHealthMetrics(signer, id, metrics) ==
    /\ health_metrics' = store_health_metrics(id, metrics)
    /\ result' = Outcome("store_health_metrics", signer, id, "ok", <<>>, <<>>)
    /\ UNCHANGED <<coreVars, registered, accessVars, ae_admin, commitment_core, verifiers,
                   counter, attestations, nftVars>>

UpdateHealthMetrics(signer, id, updates) ==
    LET current == get_health_metrics_internal(id)
    IN  /\ health_metrics' = store_health_metrics(id,
                [current EXCEPT !.current_value = updates.current_value,
                                !.drawdown_percent = updates.drawdown_percent,
                                !.fees_generated = updates.fees_generated,
                                !.volatility_exposure = updates.volatility_exposure,
                                !.last_attestation = updates.last_attestation,
                                !.compliance_score = updates.compliance_score])
        /\ result' = Outcome("update_health_metrics", signer, id, "ok", <<>>, <<>>)
        /\ UNCHANGED <<coreVars, registered, accessVars, ae_admin, commitment_core, verifiers,
                       counter, attestations, nftVars>>

\* calculate_compliance_score is a stub that returns 100
calculate_compliance_score(id) == 100

CalculateComplianceScore(id) ==
    /\ result' = Outcome("calculate_compliance_score", "-", id, "ok",
                         <<calculate_compliance_score(id)>>, <<>>)
    /\ UNCHANGED <<coreVars, registered, accessVars, attestVars, nftVars>>

GetAttestations(id) ==
    /\ result' = Outcome("get_attestations", "-", id, "ok",
                         <<get_attestations_internal(id)>>, <<>>)
    /\ UNCHANGED <<coreVars, registered, accessVars, attestVars, nftVars>>

\* u32 values, kept at their width as two 16-bit limbs <<high, low>>
Limb == 2 ^ 16

U32(n) == <<n \div Limb, n % Limb>>

U32_MAX == <<Limb - 1, Limb - 1>>

U32Less(a, b) == a[1] < b[1] \/ (a[1] = b[1] /\ a[2] < b[2])

U32Min(a, b) == IF U32Less(b, a) THEN b ELSE a

\* a + b does not fit in 32 bits
U32Overflows(a, b) == a[1] + b[1] + ((a[2] + b[2]) \div Limb) >= Limb

\* a + b modulo 2^32
U32WrappingAdd(a, b) ==
    <<(a[1] + b[1] + ((a[2] + b[2]) \div Limb)) % Limb, (a[2] + b[2]) % Limb>>

\* the index a u32 no larger than a list length stands for
U32Index(a) == a[2]

\* all.slice(offset..end): the host rejects a range that ends before it starts
VecSlice(all, offset, end) ==
    IF U32Less(end, offset)
    THEN [err |-> "SliceError", val |-> <<>>]
    ELSE [err |-> "ok", val |-> <<SubSeq(all, U32Index(offset) + 1, U32Index(end))>>]

\* get_attestations_paginated on the list read from storage; offset + limit is a
\* u32 addition, which panics in a build with overflow checks and wraps otherwise
get_attestations_paginated(all, offset, limit, overflow_checks) ==
    LET len == U32(Len(all))
    IN  IF ~U32Less(offset, len)
        THEN [err |-> "ok", val |-> << <<>> >>]
        ELSE IF U32Overflows(offset, limit) /\ overflow_checks
        THEN [err |-> "Overflow", val |-> <<>>]
        ELSE LET end == U32Min(U32WrappingAdd(offset, limit), len)
             IN  VecSlice(all, offset, end)

GetAttestationsPaginated(id, offset, limit, overflow_checks) ==
    LET r == get_attestations_paginated(get_attestations_internal(id), offset, limit,
                                        overflow_checks)
    IN  /\ result' = [Outcome("get_attestations_paginated", "-", id, r.err, r.val, <<>>)
                         EXCEPT !.args = <<offset, limit>>]
        /\ UNCHANGED <<coreVars, registered, accessVars, attestVars, nftVars>>

-----------------------------------------------------------------------------
(* CommitmentNFTContract *)

NftInitialize(signer, a) ==
    IF nft_admin # "none"
    THEN /\ result' = Outcome("nft_initialize", signer, a, "AlreadyInitialized", <<>>, <<>>)
         /\ UNCHANGED <<coreVars, registered, accessVars, attestVars, nftVars>>
    ELSE IF signer # a
    THEN /\ result' = Outcome("nft_initialize", signer, a, "AuthError", <<>>, <<>>)
         /\ UNCHANGED <<coreVars, registered, accessVars, attestVars, nftVars>>
    ELSE /\ nft_admin' = a
         /\ token_counter' = 0
         /\ result' = Outcome("nft_initialize", signer, a, "ok", <<>>, <<>>)
         /\ UNCHANGED <<coreVars, registered, accessVars, attestVars, tokens, owner_tokens,
                        reentrancy_guard>>

MaxTokens == 2

FailNft(op, caller, id, err) ==
    /\ result' = Outcome(op, caller, id, err, <<>>, <<>>)
    /\ UNCHANGED <<coreVars, registered, accessVars, attestVars, nftVars>>

\* get_nft: the token record exists
token_exists(token_id) == token_id \in DOMAIN tokens

\* add_token_to_owner
add_token_to_owner(lists, owner, token_id) ==
    [x \in (DOMAIN lists) \cup {owner} |->
        IF x = owner
        THEN Append(IF owner \in DOMAIN lists THEN lists[owner] ELSE <<>>, token_id)
        ELSE lists[x]]

\* the list without every entry equal to token_id
RECURSIVE Without(_, _)
Without(list, token_id) ==
    IF list = <<>>
    THEN <<>>
    ELSE IF Head(list) = token_id
    THEN Without(Tail(list), token_id)
    ELSE <<Head(list)>> \o Without(Tail(list), token_id)

\* remove_token_from_owner
remove_token_from_owner(lists, owner, token_id) ==
    [x \in (DOMAIN lists) \cup {owner} |->
        IF x = owner
        THEN Without(IF owner \in DOMAIN lists THEN lists[owner] ELSE <<>>, token_id)
        ELSE lists[x]]

\* mint validates none of its arguments
Mint(signer, owner, commitment_id, duration_days, max_loss_percent, commitment_type, initial_amount) ==
    IF nft_admin = "none"
    THEN FailNft("mint", owner, "-", "NotInitialized")
    ELSE IF signer # owner
    THEN /\ result' = [Outcome("mint", owner, "-", "AuthError", <<>>, <<>>)
                          EXCEPT !.signer = signer]
         /\ UNCHANGED <<coreVars, registered, accessVars, attestVars, nftVars>>
    ELSE LET new_token_id == token_counter + 1
             created_at == now
             nft == [ owner    |-> owner,
                      token_id |-> new_token_id,
                      metadata |-> [ commitment_id    |-> commitment_id,
                                     duration_days    |-> duration_days,
                                     max_loss_percent |-> max_loss_percent,
                                     commitment_type  |-> commitment_type,
                                     created_at       |-> created_at,
                                     expires_at       |-> created_at
                                                          + duration_days * 24 * 60 * 60,
                                     initial_amount   |-> initial_amount,
                                     asset_address    |-> "asset" ],
                      is_active |-> TRUE,
                      early_exit_penalty |-> 10 ]
         IN  /\ token_counter < MaxTokens
             /\ token_counter' = new_token_id
             /\ tokens' = [x \in (DOMAIN tokens) \cup {new_token_id} |->
                              IF x = new_token_id THEN nft ELSE tokens[x]]
             /\ owner_tokens' = add_token_to_owner(owner_tokens, owner, new_token_id)
             /\ reentrancy_guard' = FALSE
             /\ result' = Outcome("mint", owner, new_token_id, "ok", <<new_token_id>>,
                                  << <<"mint", owner, new_token_id, created_at>> >>)
             /\ UNCHANGED <<coreVars, registered, accessVars, attestVars, nft_admin>>

Transfer_ignoring_lock(signer, from, to, token_id) ==
    IF nft_admin = "none"
    THEN FailNft("transfer", from, token_id, "NotInitialized")
    ELSE IF signer # from
    THEN /\ result' = [Outcome("transfer", from, token_id, "AuthError", <<>>, <<>>)
                          EXCEPT !.args = <<to>>, !.signer = signer]
         /\ UNCHANGED <<coreVars, registered, accessVars, attestVars, nftVars>>
    ELSE IF from = to
    THEN /\ result' = [Outcome("transfer", from, token_id, "InvalidRecipient", <<>>, <<>>)
                          EXCEPT !.args = <<to>>]
         /\ UNCHANGED <<coreVars, registered, accessVars, attestVars, nftVars>>
    ELSE IF ~token_exists(token_id)
    THEN /\ result' = [Outcome("transfer", from, token_id, "TokenNotFound", <<>>, <<>>)
                          EXCEPT !.args = <<to>>]
         /\ UNCHANGED <<coreVars, registered, accessVars, attestVars, nftVars>>
    ELSE IF tokens[token_id].owner # from
    THEN /\ result' = [Outcome("transfer", from, token_id, "NotOwner", <<>>, <<>>)
                          EXCEPT !.args = <<to>>]
         /\ UNCHANGED <<coreVars, registered, accessVars, attestVars, nftVars>>
    ELSE /\ tokens' = [tokens EXCEPT ![token_id].owner = to]
         /\ owner_tokens' = add_token_to_owner(
                                remove_token_from_owner(owner_tokens, from, token_id),
                                to, token_id)
         /\ result' = [Outcome("transfer", from, token_id, "ok", <<>>,
                               << <<"transfer", from, to, token_id, now>> >>)
                          EXCEPT !.args = <<to>>]
         /\ UNCHANGED <<coreVars, registered, accessVars, attestVars, nft_admin,
                        token_counter, reentrancy_guard>>

\* the checks run in the order of the code: initialized, from's authorization,
\* from # to, the token exists, from owns it, the token is unlocked; the write
\* to the reentrancy guard before Err(NotOwner) is rolled back with the call
Transfer(signer, from, to, token_id) ==
    IF nft_admin = "none"
    THEN FailNft("transfer", from, token_id, "NotInitialized")
    ELSE IF signer # from
    THEN /\ result' = [Outcome("transfer", from, token_id, "AuthError", <<>>, <<>>)
                          EXCEPT !.args = <<to>>, !.signer = signer]
         /\ UNCHANGED <<coreVars, registered, accessVars, attestVars, nftVars>>
    ELSE IF from = to
    THEN /\ result' = [Outcome("transfer", from, token_id, "InvalidRecipient", <<>>, <<>>)
                          EXCEPT !.args = <<to>>]
         /\ UNCHANGED <<coreVars, registered, accessVars, attestVars, nftVars>>
    ELSE IF ~token_exists(token_id)
    THEN /\ result' = [Outcome("transfer", from, token_id, "TokenNotFound", <<>>, <<>>)
                          EXCEPT !.args = <<to>>]
         /\ UNCHANGED <<coreVars, registered, accessVars, attestVars, nftVars>>
    ELSE IF tokens[token_id].owner # from
    THEN /\ result' = [Outcome("transfer", from, token_id, "NotOwner", <<>>, <<>>)
                          EXCEPT !.args = <<to>>]
         /\ UNCHANGED <<coreVars, registered, accessVars, attestVars, nftVars>>
    ELSE IF tokens[token_id].is_active
    THEN /\ result' = [Outcome("transfer", from, token_id, "TokenLocked", <<>>, <<>>)
                          EXCEPT !.args = <<to>>]
         /\ UNCHANGED <<coreVars, registered, accessVars, attestVars, nftVars>>
    ELSE /\ tokens' = [tokens EXCEPT ![token_id].owner = to]
         /\ owner_tokens' = add_token_to_owner(
                                remove_token_from_owner(owner_tokens, from, token_id),
                                to, token_id)
         /\ result' = [Outcome("transfer", from, token_id, "ok", <<>>,
                               << <<"transfer", from, to, token_id, now>> >>)
                          EXCEPT !.args = <<to>>]
         /\ UNCHANGED <<coreVars, registered, accessVars, attestVars, nft_admin,
                        token_counter, reentrancy_guard>>

OwnerOf(token_id) ==
    IF ~token_exists(token_id)
    THEN FailNft("owner_of", "-", token_id, "TokenNotFound")
    ELSE /\ result' = Outcome("owner_of", "-", token_id, "ok", <<tokens[token_id].owner>>, <<>>)
         /\ UNCHANGED <<coreVars, registered, accessVars, attestVars, nftVars>>

IsActive(token_id) ==
    IF ~token_exists(token_id)
    THEN FailNft("is_active", "-", token_id, "TokenNotFound")
    ELSE /\ result' = Outcome("is_active", "-", token_id, "ok",
                              <<tokens[token_id].is_active>>, <<>>)
         /\ UNCHANGED <<coreVars, registered, accessVars, attestVars, nftVars>>

\* settle of the receipt: the owner authorizes it; a settled receipt is a no-op
NftSettle(signer, token_id) ==
    IF nft_admin = "none"
    THEN FailNft("nft_settle", signer, token_id, "NotInitialized")
    ELSE IF ~token_exists(token_id)
    THEN FailNft("nft_settle", signer, token_id, "TokenNotFound")
    ELSE IF signer # tokens[token_id].owner
    THEN FailNft("nft_settle", signer, token_id, "AuthError")
    ELSE IF ~tokens[token_id].is_active
    THEN /\ result' = Outcome("nft_settle", signer, token_id, "ok", <<>>, <<>>)
         /\ UNCHANGED <<coreVars, registered, accessVars, attestVars, nftVars>>
    ELSE /\ tokens' = [tokens EXCEPT ![token_id].is_active = FALSE]
         /\ result' = Outcome("nft_settle", signer, token_id, "ok", <<>>,
                              << <<"settle", tokens[token_id].owner, token_id, now>> >>)
         /\ UNCHANGED <<coreVars, registered, accessVars, attestVars, nft_admin,
                        token_counter, owner_tokens, reentrancy_guard>>

\* activate: the admin authorizes it; it locks the receipt whatever its state
Activate(signer, token_id) ==
    IF nft_admin = "none"
    THEN FailNft("activate", signer, token_id, "NotInitialized")
    ELSE IF signer # nft_admin
    THEN FailNft("activate", signer, token_id, "AuthError")
    ELSE IF ~token_exists(token_id)
    THEN FailNft("activate", signer, token_id, "TokenNotFound")
    ELSE /\ tokens' = [tokens EXCEPT ![token_id].is_active = TRUE]
         /\ result' = Outcome("activate", signer, token_id, "ok", <<>>, <<>>)
         /\ UNCHANGED <<coreVars, registered, accessVars, attestVars, nft_admin,
                        token_counter, owner_tokens, reentrancy_guard>>

-----------------------------------------------------------------------------
(* All four contracts, one of them registered in the environment at a time *)

Contracts == {"commitment_core", "access_control", "attestation_engine", "commitment_nft"}

\* the inputs of the core contract in this specification
GateIds == {"c1"}

GateValues == {7500, 7999, 8000}

GateTimePoints == {SECONDS_PER_DAY}

\* rules given to create_commitment, valid and invalid
GateDurations == {0, 1}

GateMaxLoss == {20, 150}

GateTypes == {"balanced", "invalid_type"}

\* the metrics handed to store_health_metrics and update_health_metrics
MetricsInputs ==
    { [ commitment_id       |-> "-",
        current_value       |-> 900,
        initial_value       |-> 1000,
        drawdown_percent    |-> 10,
        fees_generated      |-> 100,
        volatility_exposure |-> 0,
        last_attestation    |-> 0,
        compliance_score    |-> 150 ] }

\* offsets and limits of the paginated query when all contracts are checked
GateOffsets == {U32(0)}

GateLimits == {U32(1), U32_MAX}

\* offsets and limits of the paginated query
Offsets == {U32(0), U32(1), U32(3), U32_MAX}

Limits == {U32(0), U32(1), U32(2), U32_MAX}

InitContracts ==
    /\ admin = "none"
    /\ nft_contract = "none"
    /\ authorized_updaters = EmptyMap
    /\ commitments = [x \in {} |-> 0]
    /\ now = 0
    /\ result = Outcome("none", "-", "-", "ok", <<>>, <<>>)
    /\ registered \in Contracts
    /\ ac_admin = "none"
    /\ ac_owner = "none"
    /\ authorized_contracts = EmptyMap
    /\ ae_admin = "none"
    /\ commitment_core = "none"
    /\ verifiers = <<>>
    /\ counter = 0
    /\ attestations = [x \in {} |-> <<>>]
    /\ health_metrics = [x \in {} |-> 0]
    /\ nft_admin = "none"
    /\ token_counter = 0
    /\ tokens = [x \in {} |-> 0]
    /\ owner_tokens = [x \in {} |-> <<>>]
    /\ reentrancy_guard = "none"

\* an invocation reaches the registered contract only
Core == registered = "commitment_core"

Access == registered = "access_control"

Engine == registered = "attestation_engine"

Nft == registered = "commitment_nft"

NextContracts ==
    \/ \E a \in Addresses, n \in NftAddresses : Core /\ Initialize(a, n)
    \/ \E s \in Addresses, c \in Addresses, u \in Addresses :
           Core /\ AddAuthorizedUpdater(s, c, u)
    \/ \E s \in Addresses, c \in Addresses, u \in Addresses :
           Core /\ RemoveAuthorizedUpdater(s, c, u)
    \/ \E id \in GateIds : Core /\ GetCommitment(id)
    \/ \E s \in Addresses, c \in Addresses, id \in GateIds, v \in GateValues :
           Core /\ UpdateValue(s, c, id, v)
    \/ \E id \in GateIds : Core /\ CheckViolations(id)
    \/ \E id \in GateIds : Core /\ GetViolationDetails(id)
    \/ \E id \in GateIds, o \in Owners, m \in MaxLossPercents, d \in DurationDays,
          t \in CreatedAts :
           Core /\ StoreTestCommitment(id, o, 10000, 10000, m, d, t)
    \/ \E t \in GateTimePoints : Core /\ AdvanceTime(t)
    \/ \E a \in Parties : Access /\ InitAdmin(a)
    \/ \E o \in Parties : Access /\ InitOwner(o)
    \/ \E s \in Parties, c \in Parties : Access /\ RequireAdmin(s, c)
    \/ \E s \in Parties, c \in Parties : Access /\ RequireAuthorized(s, c)
    \/ \E s \in Parties, c \in Parties, x \in Parties :
           Access /\ AddAuthorizedContract(s, c, x)
    \/ \E s \in Parties, c \in Parties, x \in Parties :
           Access /\ RemoveAuthorizedContract(s, c, x)
    \/ \E s \in Parties, c \in Parties, x \in Parties : Access /\ UpdateAdmin(s, c, x)
    \/ \E s \in Parties, c \in Parties, x \in Parties : Access /\ UpdateOwner(s, c, x)
    \/ \E a \in Parties : Engine /\ AttestationInitialize(a, "core")
    \/ \E s \in Parties, v \in Parties : Engine /\ AddAuthorizedVerifier(s, v)
    \/ \E s \in Parties, v \in Parties : Engine /\ RemoveAuthorizedVerifier(s, v)
    \/ \E v \in Parties : Engine /\ IsAuthorizedVerifier(v)
    \/ \E s \in Parties, id \in AttestIds, t \in AttestationTypes, v \in Parties :
           Engine /\ Attest(s, id, t, v)
    \/ \E id \in AttestIds : Engine /\ GetHealthMetrics(id)
    \/ \E id \in AttestIds : Engine /\ GetAttestations(id)
    \/ \E id \in GateIds, o \in GateOffsets, l \in GateLimits, b \in BOOLEAN :
           Engine /\ GetAttestationsPaginated(id, o, l, b)
    \/ \E id \in AttestIds : Engine /\ CalculateComplianceScore(id)
    \/ \E s \in Parties, id \in AttestIds, f \in FeeAmounts : Engine /\ RecordFees(s, id, f)
    \/ \E s \in Parties, id \in AttestIds, d \in DrawdownPercents :
           Engine /\ RecordDrawdown(s, id, d)
    \/ \E o \in Owners, a \in Amounts, d \in GateDurations, m \in GateMaxLoss,
          t \in GateTypes :
           Core /\ CreateCommitment(o, a, "asset", CommitmentRules(d, m, t))
    \/ \E id \in GateIds : Core /\ Settle(id)
    \/ \E id \in GateIds, c \in Owners \cup Addresses : Core /\ EarlyExit(id, c)
    \/ \E s \in Parties, a \in Parties : Nft /\ NftInitialize(s, a)

SpecContracts == InitContracts /\ [][NextContracts]_vars

-----------------------------------------------------------------------------
(* The attestation engine alone, with its metric operations and queries *)

MetricIds == {"c1"}

InitEngine ==
    /\ InitContracts
    /\ registered = "attestation_engine"

NextEngine ==
    \/ \E a \in Parties : AttestationInitialize(a, "core")
    \/ \E s \in Parties, v \in Parties : AddAuthorizedVerifier(s, v)
    \/ \E s \in Parties, id \in MetricIds, t \in AttestationTypes, v \in Parties :
           Attest(s, id, t, v)
    \/ \E id \in MetricIds : GetAttestations(id)
    \/ \E id \in MetricIds, o \in Offsets, l \in Limits, b \in BOOLEAN :
           GetAttestationsPaginated(id, o, l, b)
    \/ \E id \in AttestIds : GetHealthMetrics(id)
    \/ \E s \in Parties, id \in MetricIds, m \in MetricsInputs :
           StoreHealthMetrics(s, id, [m EXCEPT !.commitment_id = id])
    \/ \E s \in Parties, id \in MetricIds, m \in MetricsInputs :
           UpdateHealthMetrics(s, id, [m EXCEPT !.commitment_id = id])
    \/ \E s \in Parties, id \in AttestIds, f \in FeeAmounts : RecordFees(s, id, f)
    \/ \E s \in Parties, id \in AttestIds, d \in DrawdownPercents : RecordDrawdown(s, id, d)
    \/ \E id \in MetricIds : CalculateComplianceScore(id)
    \/ \E t \in GateTimePoints : AdvanceTime(t)

SpecEngine == InitEngine /\ [][NextEngine]_vars

-----------------------------------------------------------------------------
(* The position receipts alone *)

TokenIds == 1..MaxTokens

InitNft ==
    /\ InitContracts
    /\ registered = "commitment_nft"

NextNft ==
    \/ \E s \in Parties, a \in Parties : NftInitialize(s, a)
    \/ \E s \in Parties, o \in Parties : Mint(s, o, "commitment-1", 30, 10, "balanced", 1000)
    \/ \E s \in Parties, f \in Parties, t \in Parties, id \in TokenIds : Transfer(s, f, t, id)
    \/ \E id \in TokenIds : OwnerOf(id)
    \/ \E id \in TokenIds : IsActive(id)
    \/ \E s \in Parties, id \in TokenIds : NftSettle(s, id)
    \/ \E s \in Parties, id \in TokenIds : Activate(s, id)

SpecNft == InitNft /\ [][NextNft]_vars

-----------------------------------------------------------------------------
(* The attestation queries as functions of the stored list *)

MaxLogLen == 3

\* struct Attestation; data is left out, no operation reads it
Attestation(commitment_id, attestation_type, verified_by, timestamp) ==
    [ commitment_id |-> commitment_id, attestation_type |-> attestation_type,
      verified_by |-> verified_by, timestamp |-> timestamp ]

LogRecords == { Attestation("c1", "health_check", v, HARDCODED_TIMESTAMP) : v \in Parties }

RECURSIVE Logs(_)
Logs(n) ==
    IF n = 0 THEN { <<>> }
    ELSE LET shorter == Logs(n - 1)
         IN  shorter \cup { Append(l, r) : l \in shorter, r \in LogRecords }

InitLog ==
    /\ admin = "none"
    /\ nft_contract = "none"
    /\ authorized_updaters = EmptyMap
    /\ commitments = [x \in {} |-> 0]
    /\ now = 0
    /\ result = Outcome("none", "-", "-", "ok", <<>>, <<>>)
    /\ registered = "attestation_engine"
    /\ ac_admin = "none"
    /\ ac_owner = "none"
    /\ authorized_contracts = EmptyMap
    /\ ae_admin = "none"
    /\ commitment_core = "none"
    /\ verifiers = <<>>
    /\ counter = 0
    /\ \E l \in Logs(MaxLogLen) : attestations = [x \in MetricIds |-> l]
    /\ health_metrics = [x \in {} |-> 0]
    /\ nft_admin = "none"
    /\ token_counter = 0
    /\ tokens = [x \in {} |-> 0]
    /\ owner_tokens = [x \in {} |-> <<>>]
    /\ reentrancy_guard = "none"

NextLog ==
    \/ \E id \in MetricIds : GetAttestations(id)
    \/ \E id \in MetricIds, o \in Offsets, l \in Limits, b \in BOOLEAN :
           GetAttestationsPaginated(id, o, l, b)

SpecLog == InitLog /\ [][NextLog]_vars

-----------------------------------------------------------------------------

Next ==
    \/ \E a \in Addresses, n \in NftAddresses : Initialize(a, n)
    \/ \E s \in Addresses, c \in Addresses, u \in Updaters : AddAuthorizedUpdater(s, c, u)
    \/ \E s \in Addresses, c \in Addresses, u \in Updaters : RemoveAuthorizedUpdater(s, c, u)
    \/ \E o \in Owners, a \in Amounts, m \in MaxLossPercents, d \in DurationDays :
           CreateCommitment(o, a, "asset", CommitmentRules(d, m, "balanced"))
    \/ \E id \in Ids : GetCommitment(id)
    \/ \E s \in Addresses, c \in Addresses, id \in Ids, v \in Values : UpdateValue(s, c, id, v)
    \/ \E id \in Ids : CheckViolations(id)
    \/ \E id \in Ids : GetViolationDetails(id)
    \/ \E id \in Ids, o \in Owners, a \in Amounts, v \in SeedValues, m \in MaxLossPercents,
          d \in DurationDays, t \in CreatedAts :
           StoreTestCommitment(id, o, a, a - v, m, d, t)
    \/ \E t \in TimePoints : AdvanceTime(t)

Spec == Init /\ [][Next]_vars

-----------------------------------------------------------------------------
(* Properties *)

\* q is the quotient of a by b truncated toward zero: a = q*b + r with |r| < |b|
\* and a remainder r that is zero or has the sign of a
IsTruncQuotient(a, b, q) ==
    LET r == a - q * b
    IN  /\ Abs(r) < Abs(b)
        /\ r = 0 \/ ((r < 0) = (a < 0))

\* the caller passes the whitelist gate: it is the admin or has a true entry
Authorized(c) == admin = c \/ (c \in DOMAIN authorized_updaters /\ authorized_updaters[c])

\* a loss of a positive principal whose whole-percent drawdown
\* ((amount - v) * 100) / amount is strictly above the limit
ExceedsLimit(amount, v, max_loss_percent) ==
    /\ amount > 0
    /\ v < amount
    /\ ((amount - v) * 100) \div amount > max_loss_percent

Stored == DOMAIN commitments

\* the step is an invocation of update_value on a stored commitment
UpdateStep == result'.op = "update_value" /\ result'.id \in Stored

\* C1 (as stated): an update_value on an active commitment with positive
\* principal whose drawdown exceeds max_loss_percent leaves it violated; from
\* then on EVERY update_value on that id fails with the non-active-commitment
\* error, the stored value stays and the status never returns to active.
C1_Original ==
    [][/\ UpdateStep =>
            LET id == result'.id
                c  == commitments[id]
            IN  /\ ( /\ result'.err = "ok"
                     /\ ExceedsLimit(c.amount, commitments'[id].current_value,
                                     c.rules.max_loss_percent) )
                   => commitments'[id].status = "violated"
                /\ c.status = "violated" => result'.err = "NonActive"
       /\ \A id \in Stored :
            commitments[id].status = "violated" =>
               (id \in DOMAIN commitments' /\ commitments'[id] = commitments[id])
      ]_vars

\* C1 (amended): as above, but a later update_value on the violated id fails
\* with the non-active-commitment error when the caller authenticated and is
\* the admin or a whitelisted updater, and fails as unauthorized otherwise; in
\* every case the record (value v, status violated) stays as it is.
C1_ViolatedIsTerminalForUpdates ==
    [][/\ UpdateStep =>
            LET id == result'.id
                c  == commitments[id]
            IN  /\ ( /\ result'.err = "ok"
                     /\ ExceedsLimit(c.amount, commitments'[id].current_value,
                                     c.rules.max_loss_percent) )
                   => commitments'[id].status = "violated"
                /\ c.status = "violated" =>
                      /\ result'.err \in {"NonActive", "NotAuthorized", "AuthError"}
                      /\ Authorized(result'.caller) =>
                            result'.err \in {"NonActive", "AuthError"}
                      /\ ~Authorized(result'.caller) =>
                            result'.err \in {"NotAuthorized", "AuthError"}
       /\ \A id \in Stored :
            commitments[id].status = "violated" =>
               (id \in DOMAIN commitments' /\ commitments'[id] = commitments[id])
      ]_vars

\* a violated commitment with positive principal, whose value 7500 is 25% below
\* the principal, has just rejected an update as non-active
C1_Witness ==
    /\ result.op = "update_value"
    /\ result.err = "NonActive"
    /\ result.id \in Stored
    /\ commitments[result.id].status = "violated"
    /\ commitments[result.id].amount = 10000
    /\ commitments[result.id].current_value = 7500

\* C2: update_value succeeds only for the admin or a caller currently in the
\* whitelist; for any other caller it fails and no commitment record changes;
\* the admin, once authenticated, passes the gate whatever the whitelist holds.
C2_UpdateRequiresAuthorization ==
    [][result'.op = "update_value" =>
          LET c == result'.caller
          IN  /\ result'.err = "ok" => Authorized(c)
              /\ ~Authorized(c) => (result'.err # "ok" /\ commitments' = commitments)
              /\ ( /\ c = admin
                   /\ result'.err # "AuthError"
                   /\ result'.id \in Stored
                   /\ commitments[result'.id].status = "active" )
                 => result'.err = "ok"
      ]_vars

\* the admin has updated a value while the whitelist holds no entry at all
C2_Witness ==
    /\ result.op = "update_value"
    /\ result.err = "ok"
    /\ result.caller = admin
    /\ authorized_updaters = EmptyMap

\* the loss predicate on the input grid: a truncated quotient equal to the limit
\* is never a violation
ExactLimitCompliantOnGrid ==
    /\ check_violation(10000, 8000, 20) = FALSE
    /\ \A i \in RiskInitials \ {0}, c \in RiskCurrents, m \in RiskMaxLoss :
          IsTruncQuotient((i - c) * 100, i, m) => ~check_violation(i, c, m)

\* C3: a drawdown exactly equal to max_loss_percent is compliant: the loss
\* predicate is false whenever the truncated quotient ((initial - current) *
\* 100) / initial equals the limit (10000, 8000, 20 among them); an update to
\* such a value leaves the commitment active, and check_violations is false
\* for it before expiry.
C3_ExactLimitIsCompliant ==
    /\ [](/\ ExactLimitCompliantOnGrid
          /\ \A id \in Stored :
                LET c == commitments[id]
                IN  ( /\ c.amount # 0
                      /\ IsTruncQuotient((c.amount - c.current_value) * 100, c.amount,
                                         c.rules.max_loss_percent)
                      /\ c.status = "active"
                      /\ now < c.expires_at )
                    => ~check_violations(c, now))
    /\ [][(UpdateStep /\ result'.err = "ok") =>
            LET id == result'.id
                c  == commitments'[id]
            IN  ( /\ c.amount # 0
                  /\ IsTruncQuotient((c.amount - c.current_value) * 100, c.amount,
                                     c.rules.max_loss_percent) )
                => /\ c.status = "active"
                   /\ now' < c.expires_at => ~check_violations(c, now')
         ]_vars

\* an update has just set the value of a 10000 principal to 8000, exactly 20%
\* below it, before expiry
C3_Witness ==
    /\ result.op = "update_value"
    /\ result.err = "ok"
    /\ result.id \in Stored
    /\ commitments[result.id].amount = 10000
    /\ commitments[result.id].current_value = 8000
    /\ commitments[result.id].rules.max_loss_percent = 20
    /\ commitments[result.id].status = "active"
    /\ now < commitments[result.id].expires_at

\* the loss predicate of the risk rules, for a principal that is not negative:
\* principal != 0 and drawdown in whole percents strictly above the limit
LossViolated(c) == ExceedsLimit(c.amount, c.current_value, c.rules.max_loss_percent)

DurationViolated(c, t) == t >= c.expires_at

\* C4: a current value whose loss is strictly more than max_loss_percent of the
\* principal, even by less than one whole percent (10000, 7999, 20: a loss of
\* 20.01%), is reported as a loss violation by the loss predicate, so no stored
\* commitment with such a value is left unreported.
C4_SubPercentExcessIsViolation ==
    \A id \in Stored :
        LET c == commitments[id]
        IN  ( /\ c.amount > 0
              /\ (c.amount - c.current_value) * 100 > c.rules.max_loss_percent * c.amount )
            => check_violation(c.amount, c.current_value, c.rules.max_loss_percent)

\* C5 (as stated): violated is entered as soon as a value update or a
\* violation check observes a loss violation OR now >= expires_at: an
\* update_value at or after expiry leaves the status violated, and a
\* check_violations that returns true on an active commitment leaves its stored
\* status violated.
C5_Original ==
    [][/\ (UpdateStep /\ result'.err = "ok") =>
            LET c == commitments'[result'.id]
            IN  (LossViolated(c) \/ DurationViolated(c, now')) => c.status = "violated"
       /\ ( /\ result'.op = "check_violations"
            /\ result'.err = "ok"
            /\ result'.val = <<TRUE>>
            /\ commitments[result'.id].status = "active" )
          => commitments'[result'.id].status = "violated"
      ]_vars

\* C5 (amended): violated is entered the first time a value update observes a
\* loss violation, and only then: a successful update_value leaves the status
\* violated exactly when the new value violates the loss limit, so an update at
\* now >= expires_at with a loss within the limit leaves the status active; and
\* check_violations never changes the stored status, whatever it returns.
C5_ViolatedEnteredOnLossAtUpdate ==
    [][/\ (UpdateStep /\ result'.err = "ok") =>
            LET c == commitments'[result'.id]
            IN  /\ commitments[result'.id].status = "active"
                /\ c.status = IF LossViolated(c) THEN "violated" ELSE "active"
       /\ result'.op = "check_violations" => commitments' = commitments
       /\ \A id \in Stored :
             (commitments[id].status = "active" /\ commitments'[id].status = "violated")
                => (result'.op = "update_value" /\ result'.id = id /\ result'.err = "ok")
      ]_vars

\* an update at or after expiry, with a loss within the limit, has left the
\* commitment active
C5_Witness ==
    /\ result.op = "update_value"
    /\ result.err = "ok"
    /\ result.id \in Stored
    /\ now >= commitments[result.id].expires_at
    /\ commitments[result.id].amount = 10000
    /\ commitments[result.id].current_value = 8000
    /\ commitments[result.id].status = "active"

\* C6: check_violations(id) is true if and only if, on the stored record and
\* the current ledger time, the loss predicate or the duration predicate holds;
\* the cached status adds nothing to the result, which is true from expires_at
\* on even for a commitment whose value was never updated.
C6_CheckViolationsIsFresh ==
    /\ \A id \in Stored :
          check_violations(commitments[id], now)
             <=> (LossViolated(commitments[id]) \/ DurationViolated(commitments[id], now))
    /\ (result.op = "check_violations" /\ result.err = "ok") =>
          result.val = << LossViolated(commitments[result.id])
                          \/ DurationViolated(commitments[result.id], now) >>

\* check_violations has just returned true for an expired commitment that is
\* still active and still holds its principal as value
C6_Witness ==
    /\ result.op = "check_violations"
    /\ result.err = "ok"
    /\ result.val = <<TRUE>>
    /\ commitments[result.id].status = "active"
    /\ commitments[result.id].current_value = commitments[result.id].amount
    /\ now >= commitments[result.id].expires_at

\* C7: the duration predicate is inclusive: for a commitment whose loss is
\* within the limit, check_violations is false at every time before expires_at
\* and true at expires_at and at every later time.
C7_ExpiryIsInclusive ==
    /\ \A id \in Stored :
          ~LossViolated(commitments[id]) =>
             /\ now < commitments[id].expires_at => ~check_violations(commitments[id], now)
             /\ now = commitments[id].expires_at => check_violations(commitments[id], now)
             /\ now > commitments[id].expires_at => check_violations(commitments[id], now)
    /\ ( /\ result.op = "check_violations"
         /\ result.err = "ok"
         /\ ~LossViolated(commitments[result.id]) )
       => result.val = << ~(now < commitments[result.id].expires_at) >>

\* check_violations has just returned true exactly at expires_at for a
\* commitment whose loss is within the limit
C7_Witness ==
    /\ result.op = "check_violations"
    /\ result.err = "ok"
    /\ result.val = <<TRUE>>
    /\ ~LossViolated(commitments[result.id])
    /\ now = commitments[result.id].expires_at

\* the risk functions on the input grid with a zero principal
ZeroPrincipalOnGrid ==
    \A x \in RiskCurrents :
        /\ calculate_drawdown_percent(0, x) = 0
        /\ \A m \in RiskMaxLoss : ~check_violation(0, x, m)

\* C8: with a zero principal the drawdown is 0 and the loss predicate false for
\* every current value: an update_value that passes the authorization gate
\* succeeds with any new value, reports drawdown 0 and no violation, keeps the
\* status active, and check_violations is false before expiry.
C8_ZeroPrincipal ==
    /\ [](/\ ZeroPrincipalOnGrid
          /\ \A id \in Stored :
                commitments[id].amount = 0 =>
                   /\ commitments[id].status = "active"
                   /\ now < commitments[id].expires_at
                         => ~check_violations(commitments[id], now))
    /\ [][(UpdateStep /\ commitments[result'.id].amount = 0) =>
            /\ result'.err \in {"ok", "AuthError", "AdminNotInitialized", "NotAuthorized"}
            /\ (Authorized(result'.caller) /\ result'.err # "AuthError")
                  => result'.err = "ok"
            /\ result'.err = "ok" =>
                  LET c == commitments'[result'.id]
                      n == Len(result'.events)
                  IN  /\ c.status = "active"
                      /\ n = 1
                      /\ result'.events[n][4] = c.current_value
                      /\ result'.events[n][5] = 0
                      /\ result'.events[n][6] = FALSE
         ]_vars

\* an update has just set the value of a zero-principal commitment to 7500 and
\* left it active
C8_Witness ==
    /\ result.op = "update_value"
    /\ result.err = "ok"
    /\ commitments[result.id].amount = 0
    /\ commitments[result.id].current_value = 7500
    /\ commitments[result.id].status = "active"

\* the ValUpdate event of the last update_value: <<topic, id, old_value,
\* new_value, drawdown_percent, is_violated>>
ValueUpdated == result.events[Len(result.events)]

\* C9 (as stated): for a principal other than 0 the drawdown of a stored value
\* is the quotient ((initial - current) * 100) / initial truncated toward zero,
\* and it is negative whenever current > initial; it is the value update_value
\* reports and compares against the limit.
C9_Original ==
    /\ \A id \in Stored :
          LET c == commitments[id]
              d == calculate_drawdown_percent(c.amount, c.current_value)
          IN  c.amount # 0 =>
                 /\ IsTruncQuotient((c.amount - c.current_value) * 100, c.amount, d)
                 /\ c.current_value > c.amount => d < 0
    /\ (result.op = "update_value" /\ result.err = "ok") =>
          LET c == commitments[result.id]
          IN  c.amount # 0 =>
                 /\ IsTruncQuotient((c.amount - c.current_value) * 100, c.amount,
                                    ValueUpdated[5])
                 /\ ValueUpdated[6] = (ValueUpdated[5] > c.rules.max_loss_percent)

\* the drawdown on the input grid: the truncated quotient, negative for a gain
\* of a positive initial exactly from 1% of it on
TruncatedQuotientOnGrid ==
    \A i \in RiskInitials \ {0}, x \in RiskCurrents :
        LET d == calculate_drawdown_percent(i, x)
        IN  /\ IsTruncQuotient((i - x) * 100, i, d)
            /\ (i > 0 /\ x > i) => (d <= 0 /\ (d < 0 <=> (x - i) * 100 >= i))

\* C9 (amended): for initial != 0 the drawdown is the quotient ((initial -
\* current) * 100) / initial truncated toward zero (not floored) and never
\* clamped; for a positive initial and current > initial it is negative exactly
\* when the gain is at least 1% of initial, and 0 (by truncation) for a smaller
\* gain; it is the value update_value reports and compares against the limit.
C9_DrawdownIsTruncatedQuotient ==
    /\ TruncatedQuotientOnGrid
    /\ \A id \in Stored :
          LET c == commitments[id]
              d == calculate_drawdown_percent(c.amount, c.current_value)
          IN  c.amount # 0 =>
                 /\ IsTruncQuotient((c.amount - c.current_value) * 100, c.amount, d)
                 /\ c.current_value > c.amount =>
                       (d <= 0 /\ (d < 0 <=> (c.current_value - c.amount) * 100 >= c.amount))
    /\ (result.op = "update_value" /\ result.err = "ok") =>
          LET c == commitments[result.id]
          IN  c.amount # 0 =>
                 /\ IsTruncQuotient((c.amount - c.current_value) * 100, c.amount,
                                    ValueUpdated[5])
                 /\ ValueUpdated[6] = (ValueUpdated[5] > c.rules.max_loss_percent)
                 /\ (c.status = "violated") = (ValueUpdated[5] > c.rules.max_loss_percent)

\* an update of a 10000 principal to 12550, a gain of 25.5%, has just reported
\* the drawdown -25 (the floor would be -26, a clamp 0)
C9_Witness ==
    /\ result.op = "update_value"
    /\ result.err = "ok"
    /\ commitments[result.id].amount = 10000
    /\ commitments[result.id].current_value = 12550
    /\ ValueUpdated[5] = -25
    /\ ValueUpdated[6] = FALSE

\* C10: get_violation_details returns (has_violations, loss_violated,
\* duration_violated, loss_percent, time_remaining) with has_violations =
\* (loss_violated or duration_violated) = check_violations, loss_percent the
\* truncated drawdown of the stored value, time_remaining = expires_at - now
\* before expiry and 0 from expiry on; for principal 10000, limit 20 and value
\* 7500 before expiry it returns (true, true, false, 25, _).
C10_ViolationDetails ==
    (result.op = "get_violation_details" /\ result.err = "ok") =>
       LET c == commitments[result.id]
           d == result.val
       IN  /\ Len(d) = 5
           /\ d[1] = (d[2] \/ d[3])
           /\ d[1] = check_violations(c, now)
           /\ d[2] = LossViolated(c)
           /\ d[3] = DurationViolated(c, now)
           /\ d[4] = calculate_drawdown_percent(c.amount, c.current_value)
           /\ c.amount # 0 =>
                 IsTruncQuotient((c.amount - c.current_value) * 100, c.amount, d[4])
           /\ c.amount = 0 => d[4] = 0
           /\ d[5] = IF now < c.expires_at THEN c.expires_at - now ELSE 0
           /\ ( /\ c.amount = 10000
                /\ c.rules.max_loss_percent = 20
                /\ c.current_value = 7500
                /\ now < c.expires_at )
              => (d[1] = TRUE /\ d[2] = TRUE /\ d[3] = FALSE /\ d[4] = 25)

\* the details of a 10000 principal updated to 7500, hence violated, have just
\* been read one second before expiry
C10_Witness ==
    /\ result.op = "get_violation_details"
    /\ result.err = "ok"
    /\ commitments[result.id].amount = 10000
    /\ commitments[result.id].current_value = 7500
    /\ commitments[result.id].status = "violated"
    /\ now < commitments[result.id].expires_at
    /\ result.val = <<TRUE, TRUE, FALSE, 25, 1>>

-----------------------------------------------------------------------------
(* Properties of the admin, the owner and the whitelists *)

\* x passes the authorization check of the registered contract
PassesGate(x) ==
    \/ Core /\ Authorized(x)
    \/ Access /\ ac_is_authorized(x)
    \/ Engine /\ is_authorized_verifier(x)

\* the admin of the registered contract ("none" while it has none)
CurrentAdmin ==
    IF Core THEN admin
    ELSE IF Access THEN ac_admin
    ELSE IF Engine THEN ae_admin
    ELSE nft_admin

RemoveOps ==
    {"remove_authorized_updater", "remove_authorized_contract", "remove_authorized_verifier"}

AddOps == {"add_authorized_updater", "add_authorized_contract", "add_authorized_verifier"}

\* the operations that are open to the admin and the whitelist only
GatedOps == {"update_value", "require_authorized", "attest"}

\* C11: after the admin removes an address from a whitelist, every later
\* authorization check for that address fails, so its update_value / attest
\* calls are rejected, until it is added again (or made the admin); the admin
\* of each contract remains authorized throughout.
C11_RemovedAddressFailsUntilAddedAgain ==
    /\ [](CurrentAdmin # "none" /\ ~Nft => PassesGate(CurrentAdmin))
    /\ [][\A x \in Parties :
            /\ (result'.op \in RemoveOps /\ result'.err = "ok" /\ result'.id = x)
                  => (x = CurrentAdmin' \/ ~PassesGate(x)')
            /\ (~PassesGate(x) /\ PassesGate(x)')
                  => \/ result'.op \in AddOps /\ result'.err = "ok" /\ result'.id = x
                     \/ x = CurrentAdmin'
            /\ (result'.op \in GatedOps /\ result'.caller = x /\ ~PassesGate(x))
                  => result'.err # "ok"
         ]_vars

\* C12: in the attestation engine the admin is always an authorized verifier:
\* from initialization on, is_authorized_verifier(admin) is true and an attest
\* with verified_by = admin is accepted, whatever the verifier list holds.
C12_AdminIsAlwaysAuthorizedVerifier ==
    /\ ae_admin # "none" => is_authorized_verifier(ae_admin)
    /\ (result.op = "is_authorized_verifier" /\ ae_admin # "none" /\ result.id = ae_admin)
          => result.val = <<TRUE>>
    /\ (result.op = "attest" /\ ae_admin # "none" /\ result.caller = ae_admin)
          => result.err = "ok"

\* the three whitelists
Whitelists == <<authorized_updaters, authorized_contracts, verifiers>>

\* v is an element of the VERIFIERS list
OnVerifierList(v) == v \in {verifiers[i] : i \in DOMAIN verifiers}

\* x has an entry of its own in the whitelist of the registered contract
InWhitelist(x) ==
    \/ Core /\ MapGet(authorized_updaters, x)
    \/ Access /\ MapGet(authorized_contracts, x)
    \/ Engine /\ OnVerifierList(x)

\* the ways a call is turned down for lack of authority
AuthorityErrors == {"AuthError", "OnlyAdmin", "Unauthorized"}

\* C13: adding or removing a whitelist entry is admin-only: an add or remove of
\* an authorized contract / updater / verifier requested by any caller other
\* than the current admin fails, as unauthorized when the contract has an
\* admin, and leaves the whitelist unchanged.
C13_WhitelistChangeIsAdminOnly ==
    [][(result'.op \in AddOps \cup RemoveOps /\ result'.caller # CurrentAdmin) =>
          /\ result'.err # "ok"
          /\ CurrentAdmin # "none" => result'.err \in AuthorityErrors
          /\ Whitelists' = Whitelists
      ]_vars

\* an authenticated caller that is not the admin has just been refused the
\* removal of an existing whitelist entry
C13_Witness ==
    /\ result.op = "remove_authorized_contract"
    /\ result.err = "Unauthorized"
    /\ ac_admin # "none"
    /\ result.caller # ac_admin
    /\ MapGet(authorized_contracts, result.id)

\* C14: a redundant whitelist change is rejected: an add, by the authenticated
\* admin, of an address that is already in the whitelist fails with
\* AlreadyAuthorized, and a remove of an address that is not in the whitelist
\* (the admin's own address included) fails with NotAuthorized; in both cases
\* the whitelist is unchanged.
C14_RedundantChangeIsRejected ==
    [][\A x \in Parties :
          /\ ( /\ result'.op \in AddOps
               /\ result'.id = x
               /\ InWhitelist(x)
               /\ result'.err \notin AuthorityErrors )
             => (result'.err = "AlreadyAuthorized" /\ Whitelists' = Whitelists)
          /\ ( /\ result'.op \in RemoveOps
               /\ result'.id = x
               /\ ~InWhitelist(x)
               /\ result'.err \notin AuthorityErrors \cup {"AdminNotInitialized"} )
             => (result'.err = "NotAuthorized" /\ Whitelists' = Whitelists)
      ]_vars

\* C15: the admin and the owner are replaced only through update_admin called
\* by the current admin and update_owner called by the current owner: once set,
\* no other call, a repeated initialize or init_owner included, changes them.
C15_OnlyHolderReplacesAdminAndOwner ==
    [][/\ (admin # "none" => admin' = admin)
       /\ (ae_admin # "none" => ae_admin' = ae_admin)
       /\ (nft_admin # "none" => nft_admin' = nft_admin)
       /\ (ac_admin # "none" /\ ac_admin' # ac_admin)
             => /\ result'.op = "update_admin"
                /\ result'.err = "ok"
                /\ result'.caller = ac_admin
       /\ (ac_owner # "none" /\ ac_owner' # ac_owner)
             => /\ result'.op = "update_owner"
                /\ result'.err = "ok"
                /\ result'.caller = ac_owner
      ]_vars

InitOps == {"init_admin", "attestation_initialize", "nft_initialize"}

\* C16: initialization is at-most-once: once the admin is set, a second
\* init_admin (AccessControl) or initialize (attestation engine, NFT contract)
\* fails and leaves the stored admin and all other state unchanged.
C16_InitializationAtMostOnce ==
    [][(result'.op \in InitOps /\ CurrentAdmin # "none") =>
          /\ result'.err # "ok"
          /\ CurrentAdmin' = CurrentAdmin
          /\ UNCHANGED <<coreVars, accessVars, attestVars, nftVars>>
      ]_vars

\* a second initialize of the attestation engine, naming another admin, has
\* just failed while a verifier is on the list
C16_Witness ==
    /\ result.op = "attestation_initialize"
    /\ result.err = "AlreadyInitialized"
    /\ ae_admin # "none"
    /\ result.id # ae_admin
    /\ verifiers # <<>>

\* C17: update_admin(caller, new_admin) succeeds only when caller is the
\* current admin; afterwards get_admin is new_admin, new_admin passes
\* require_admin and require_authorized, and the previous admin (when it is
\* another address) passes require_admin no more, and require_authorized only
\* through a whitelist entry of its own; when caller is not the admin the call
\* fails as unauthorized and the admin is unchanged.
C17_UpdateAdmin ==
    [][\A c \in Parties, n \in Parties :
          /\ (result'.op = "update_admin" /\ result'.caller = c /\ result'.id = n) =>
                /\ result'.err = "ok" =>
                      /\ ac_admin = c
                      /\ ac_admin' = n
                      /\ ac_is_admin(n)'
                      /\ ac_is_authorized(n)'
                      /\ c # n => /\ ~ac_is_admin(c)'
                                  /\ ac_is_authorized(c)' = MapGet(authorized_contracts, c)
                      /\ authorized_contracts' = authorized_contracts
                      /\ result'.events = << <<"admin_upd", c, c, n>> >>
                /\ ac_admin # c =>
                      /\ result'.err \in {"Unauthorized", "AuthError"}
                      /\ ac_admin' = ac_admin
          /\ (result'.op = "require_admin" /\ result'.caller = c) =>
                /\ result'.err = "ok" => ac_is_admin(c)
                /\ ac_is_admin(c) => result'.err \in {"ok", "AuthError"}
          /\ (result'.op = "require_authorized" /\ result'.caller = c) =>
                /\ result'.err = "ok" => ac_is_authorized(c)
                /\ ac_is_authorized(c) => result'.err \in {"ok", "AuthError"}
      ]_vars

\* the admin has just handed over to another address and, having no whitelist
\* entry of its own, is no longer authorized
C17_Witness ==
    /\ result.op = "update_admin"
    /\ result.err = "ok"
    /\ result.caller # result.id
    /\ ac_admin = result.id
    /\ ~ac_is_admin(result.caller)
    /\ ~ac_is_authorized(result.caller)

GuardedOps ==
    {"update_value", "attest", "record_fees", "record_drawdown"} \cup AddOps \cup RemoveOps

\* C18: every failing call is all-or-nothing: when update_value, a whitelist
\* change, attest, record_fees or record_drawdown fails, no persisted state
\* (commitment records, whitelists, admins, attestations, health metrics)
\* differs from the state before the call and no event has been emitted.
C18_FailingCallChangesNothing ==
    [][(result'.op \in GuardedOps /\ result'.err # "ok") =>
          /\ UNCHANGED <<coreVars, accessVars, attestVars, nftVars>>
          /\ result'.events = <<>>
          /\ result'.val = <<>>
      ]_vars

\* an update_value on a violated commitment has just failed and left the
\* record as it was
C18_Witness ==
    /\ result.op = "update_value"
    /\ result.err = "NonActive"
    /\ result.id \in Stored
    /\ commitments[result.id].status = "violated"
    /\ commitments[result.id].current_value = 7500

CommitmentQueries == {"get_commitment", "check_violations", "get_violation_details"}

\* C19: every query on a commitment id that has no stored record fails with a
\* not-found error instead of returning a zero-valued placeholder:
\* get_commitment, check_violations, get_violation_details and
\* get_health_metrics all fail for an unknown id, as update_value does.
C19_UnknownIdIsNotFound ==
    /\ (result.op \in CommitmentQueries /\ result.id \notin Stored)
          => result.err = "CommitmentNotFound"
    /\ (result.op = "update_value" /\ result.id \notin Stored)
          => result.err \in {"CommitmentNotFound", "AuthError", "AdminNotInitialized",
                             "NotAuthorized"}
    /\ (result.op = "get_health_metrics" /\ result.id \notin DOMAIN health_metrics)
          => result.err # "ok"

\* C20: attest(commitment_id, type, data, verified_by) is accepted only if
\* verified_by is an authorized verifier at the time of the call; otherwise it
\* fails as unauthorized and neither the attestation list nor the health
\* metrics of any commitment change.
C20_AttestRequiresAuthorizedVerifier ==
    [][\A v \in Parties :
          (result'.op = "attest" /\ result'.caller = v) =>
             /\ result'.err = "ok" => OnVerifierList(v)
             /\ ~(OnVerifierList(v) \/ v = ae_admin) => result'.err = "UnauthorizedVerifier"
             /\ result'.err # "ok" =>
                   /\ result'.err = "UnauthorizedVerifier"
                   /\ attestations' = attestations
                   /\ health_metrics' = health_metrics
      ]_vars

\* an attest naming an address that is neither the admin nor on the verifier
\* list has just been refused, while another address is on the list and some
\* commitment has metrics
C20_Witness ==
    /\ result.op = "attest"
    /\ result.err = "UnauthorizedVerifier"
    /\ ae_admin # "none"
    /\ result.caller # ae_admin
    /\ verifiers # <<>>
    /\ DOMAIN health_metrics # {}

-----------------------------------------------------------------------------
(* Attestation log and health metrics *)

\* list `before` followed by exactly one record of the given type
AppendsOne(before, after, attestation_type) ==
    /\ Len(after) = Len(before) + 1
    /\ SubSeq(after, 1, Len(before)) = before
    /\ after[Len(after)].attestation_type = attestation_type

\* C21: after a successful attest(commitment_id, type, data, verified_by),
\* get_attestations(commitment_id) is its value before the call with exactly
\* one new record appended at the end, carrying the given type and verifier,
\* and get_health_metrics(commitment_id).last_attestation is the current
\* ledger time.
C21_AttestAppendsOneRecord ==
    [][\A id \in AttestIds, v \in Parties, t \in AttestationTypes :
          (/\ result'.op = "attest"
           /\ result'.err = "ok"
           /\ result'.id = id
           /\ result'.caller = v
           /\ result'.args = <<t>>) =>
             /\ AppendsOne(get_attestations_internal(id), get_attestations_internal(id)', t)
             /\ get_attestations_internal(id)'[Len(get_attestations_internal(id)')].verified_by = v
             /\ get_health_metrics_internal(id)'.last_attestation = now'
      ]_vars

\* C22: the attestation log of each commitment is append-only and ordered by
\* call arrival: no step removes, reorders or modifies an existing record (the
\* list before a step is a prefix of the list after it), and the list holds
\* one record for every attest call that completed, in the order the calls
\* completed.
C22_LogIsAppendOnlyInArrivalOrder ==
    [][\A id \in AttestIds :
          /\ Len(get_attestations_internal(id)') >= Len(get_attestations_internal(id))
          /\ SubSeq(get_attestations_internal(id)', 1, Len(get_attestations_internal(id)))
                = get_attestations_internal(id)
          /\ (result'.op = "attest" /\ result'.err = "ok" /\ result'.id = id) =>
                Len(get_attestations_internal(id)') = Len(get_attestations_internal(id)) + 1
      ]_vars

\* min(limit, n - offset) for an offset below n
PageLength(n, offset, limit) ==
    IF U32Less(limit, U32(n - U32Index(offset))) THEN U32Index(limit) ELSE n - U32Index(offset)

MetricWriters ==
    {"record_fees", "record_drawdown", "store_health_metrics", "update_health_metrics"}

\* C24: health metrics can be changed only by an authorized party:
\* record_fees, record_drawdown, store_health_metrics and update_health_metrics
\* invoked by a caller that is neither the admin nor an authorized verifier
\* fail and leave the HealthMetrics of every commitment unchanged.
C24_MetricWritesNeedAuthority ==
    [][\A s \in Parties :
          (/\ result'.op \in MetricWriters
           /\ result'.caller = s
           /\ s # ae_admin
           /\ ~OnVerifierList(s)) =>
             /\ result'.err # "ok"
             /\ health_metrics' = health_metrics
      ]_vars

\* C25: each successful record_fees(id, amount) appends exactly one
\* fee_generation attestation, and each successful record_drawdown(id, percent)
\* exactly one drawdown attestation, to the attestation list of id, and sets
\* HealthMetrics(id).last_attestation to the current ledger time.
C25_RecordingAppendsTypedAttestation ==
    [][\A id \in MetricIds :
          (/\ result'.op \in {"record_fees", "record_drawdown"}
           /\ result'.err = "ok"
           /\ result'.id = id) =>
             /\ AppendsOne(get_attestations_internal(id), get_attestations_internal(id)',
                           IF result'.op = "record_fees" THEN "fee_generation" ELSE "drawdown")
             /\ get_health_metrics_internal(id)'.last_attestation = now'
      ]_vars

\* C26: the compliance score is always within [0, 100]:
\* calculate_compliance_score(id) is in 0..100 for every commitment, and the
\* compliance_score field that get_health_metrics(id) returns is in 0..100 in
\* every reachable state, whatever metric updates preceded it.
C26_ComplianceScoreInRange ==
    \A id \in MetricIds :
       /\ calculate_compliance_score(id) \in 0..100
       /\ get_health_metrics_internal(id).compliance_score \in 0..100
       /\ (result.op = "get_health_metrics" /\ result.id = id) =>
             result.val[1].compliance_score \in 0..100

\* C27: for every commitment id, get_health_metrics(id).compliance_score equals
\* calculate_compliance_score(id) in every reachable state, including for a
\* commitment that has no attestations or stored metrics yet.
C27_ScoreFieldEqualsCalculatedScore ==
    \A id \in MetricIds :
       (result.op = "get_health_metrics" /\ result.id = id) =>
          result.val[1].compliance_score = calculate_compliance_score(id)

-----------------------------------------------------------------------------
(* Creation and settlement *)

CommitmentTypes == {"safe", "balanced", "aggressive"}

\* the rules that the specification calls valid
ValidRules(rules) ==
    /\ rules.duration_days > 0
    /\ rules.max_loss_percent \in 0..100
    /\ rules.commitment_type \in CommitmentTypes

\* the errors that the violated rules of an invalid rule set call for
RuleErrors(rules) ==
    (IF rules.duration_days > 0 THEN {} ELSE {"InvalidDuration"})
    \cup (IF rules.max_loss_percent \in 0..100 THEN {} ELSE {"InvalidPercent"})
    \cup (IF rules.commitment_type \in CommitmentTypes THEN {} ELSE {"InvalidCommitmentType"})

\* C28: for valid rules (and a positive amount), create_commitment(owner,
\* amount, asset, rules) persists a record and returns its id, such that get_commitment(id) has status active,
\* current_value equal to amount, the given owner and rules, created_at equal
\* to the ledger time and expires_at = created_at + duration_days * 86400.
C28_CreatePersistsActiveRecord ==
    [][(/\ result'.op = "create_commitment"
        /\ result'.args[1] > 0
        /\ ValidRules(result'.args[3])) =>
          /\ result'.err = "ok"
          /\ result'.val[1] \in DOMAIN commitments'
          /\ commitments'[result'.val[1]].status = "active"
          /\ commitments'[result'.val[1]].current_value = result'.args[1]
          /\ commitments'[result'.val[1]].owner = result'.caller
          /\ commitments'[result'.val[1]].rules = result'.args[3]
          /\ commitments'[result'.val[1]].created_at = now'
          /\ commitments'[result'.val[1]].expires_at
                = now' + result'.args[3].duration_days * SECONDS_PER_DAY
      ]_vars

\* C29: creating a commitment whose rules violate duration > 0,
\* 0 <= max_loss_percent <= 100 or category in {safe, balanced, aggressive}
\* fails with the error of a violated rule and persists no record.
C29_InvalidRulesAreRejected ==
    [][(/\ result'.op = "create_commitment"
        /\ ~ValidRules(result'.args[3])) =>
          /\ result'.err \in RuleErrors(result'.args[3])
          /\ commitments' = commitments
      ]_vars

\* C30: settle(id) succeeds only when the commitment exists, the ledger time is
\* at or past expires_at and the status is active or violated, and it then sets
\* the status to settled; it fails with a not-found error on an unknown id,
\* with a not-expired error before expiry, and on a settled or early-exited
\* commitment; a failing settle leaves the record unchanged, and a settled
\* commitment never changes again.
C30_SettleOnlyAtMaturity ==
    [][\A id \in GateIds :
          /\ (result'.op = "settle" /\ result'.id = id) =>
                /\ id \notin Stored => result'.err = "CommitmentNotFound"
                /\ (id \in Stored /\ now' < commitments[id].expires_at) =>
                      result'.err = "NotExpired"
                /\ (id \in Stored /\ commitments[id].status \in {"settled", "early_exit"}) =>
                      result'.err \notin {"ok", "CommitmentNotFound"}
                /\ result'.err = "ok" =>
                      /\ id \in Stored
                      /\ now' >= commitments[id].expires_at
                      /\ commitments[id].status \in {"active", "violated"}
                      /\ commitments'[id].status = "settled"
                /\ result'.err # "ok" => commitments' = commitments
          /\ (id \in Stored /\ commitments[id].status = "settled") =>
                commitments'[id] = commitments[id]
      ]_vars

-----------------------------------------------------------------------------
(* Early exit *)

\* C31: early_exit(id, caller) succeeds only when caller is the commitment's
\* owner, the status is active and now < expires_at, and then sets the status
\* to early_exit; for any other caller, status or time, or an unknown id, it
\* fails and leaves the record unchanged; once early-exited the status never
\* changes again.
C31_EarlyExitOnlyByOwnerBeforeExpiry ==
    [][\A id \in GateIds :
          /\ (result'.op = "early_exit" /\ result'.id = id) =>
                /\ result'.err = "ok" =>
                      /\ id \in Stored
                      /\ commitments[id].owner = result'.caller
                      /\ commitments[id].status = "active"
                      /\ now' < commitments[id].expires_at
                      /\ commitments'[id].status = "early_exit"
                /\ result'.err # "ok" => commitments' = commitments
          /\ (id \in Stored /\ commitments[id].status = "early_exit") =>
                commitments'[id].status = "early_exit"
      ]_vars

-----------------------------------------------------------------------------
(* Position receipts *)

C33_UnlockedStaysUnlocked ==
    [][\A id \in TokenIds :
          (token_exists(id) /\ ~tokens[id].is_active) =>
             /\ ~tokens'[id].is_active
             /\ (result'.op = "nft_settle" /\ result'.id = id) =>
                   /\ UNCHANGED nftVars
                   /\ result'.events = <<>>
      ]_vars

-----------------------------------------------------------------------------
(* Frame conditions and queries *)

\* C34: a successful update_value(caller, id, v) changes only the current_value
\* and possibly the status of commitment id: its principal amount, owner,
\* rules, nft_token_id, asset, created_at and expires_at, every other
\* commitment record, the admin and the whitelist are unchanged; hence the
\* principal and rules of a stored commitment are the same after every step.
C34_UpdateChangesOnlyValueAndStatus ==
    [][\A id \in Stored :
          /\ (UpdateStep /\ result'.err = "ok" /\ result'.id = id) =>
                /\ commitments' =
                      [commitments EXCEPT ![id].current_value = commitments'[id].current_value,
                                          ![id].status = commitments'[id].status]
                /\ commitments'[id].current_value = result'.events[Len(result'.events)][4]
                /\ admin' = admin
                /\ nft_contract' = nft_contract
                /\ authorized_updaters' = authorized_updaters
          /\ id \in DOMAIN commitments'
          /\ commitments'[id].amount = commitments[id].amount
          /\ commitments'[id].rules = commitments[id].rules
      ]_vars

\* an update has just stored 7500 for a commitment of principal 10000 and
\* turned its status to violated, while a second commitment is stored
C34_Witness ==
    /\ result.op = "update_value"
    /\ result.err = "ok"
    /\ result.id \in Stored
    /\ commitments[result.id].amount = 10000
    /\ commitments[result.id].current_value = 7500
    /\ commitments[result.id].status = "violated"
    /\ \E other \in Stored : other # result.id

Queries ==
    {"check_violations", "get_commitment", "get_violation_details", "get_attestations",
     "get_attestations_paginated", "get_health_metrics", "calculate_compliance_score",
     "is_authorized_verifier"}

\* C35: the query operations are read-only: check_violations, get_commitment,
\* get_attestations, get_attestations_paginated, get_health_metrics and
\* calculate_compliance_score, with any arguments and whether they succeed or
\* fail, leave all persisted state (commitment records including status,
\* whitelists, admins, attestations, health metrics) unchanged.
C35_QueriesAreReadOnly ==
    [][result'.op \in Queries =>
          /\ UNCHANGED <<admin, nft_contract, authorized_updaters, commitments>>
          /\ UNCHANGED <<accessVars, attestVars, nftVars>>
          /\ result'.events = <<>>
      ]_vars

\* check_violations has just returned true for an expired commitment whose
\* stored status is still active
C35_Witness ==
    /\ result.op = "check_violations"
    /\ result.err = "ok"
    /\ result.val = <<TRUE>>
    /\ result.id \in Stored
    /\ commitments[result.id].status = "active"

-----------------------------------------------------------------------------
(* Authentication *)

\* the operations that name the address they act for (caller or verified_by)
NamingOps == {"update_value", "add_authorized_updater", "remove_authorized_updater"}

\* the operations that act for the stored admin of the attestation engine
VerifierListOps == {"add_authorized_verifier", "remove_authorized_verifier"}

\* C36: no mutating operation lets a party act under an identity it has not
\* authenticated: update_value, add/remove authorized updater, add/remove
\* authorized verifier and attest take effect only if the address they name as
\* caller, admin or verifier authorized the invocation; an attest that names an
\* authorized verifier without that verifier's authorization is rejected.
C36_NamedIdentityIsAuthenticated ==
    [][/\ (result'.op \in NamingOps /\ result'.err = "ok") =>
             result'.signer = result'.caller
       /\ (result'.op \in VerifierListOps /\ result'.err = "ok") =>
             result'.signer = ae_admin
       /\ (result'.op = "attest" /\ result'.signer # result'.caller) =>
             result'.err # "ok"
      ]_vars

-----------------------------------------------------------------------------
(* Pagination at the edge of the 32-bit range *)

-----------------------------------------------------------------------------
(* Fee and drawdown records *)

\* the metrics fields that record_fees and record_drawdown do not write
KeptByRecording(before, after) ==
    /\ after.current_value = before.current_value
    /\ after.initial_value = before.initial_value
    /\ after.volatility_exposure = before.volatility_exposure
    /\ after.compliance_score = before.compliance_score

\* C38: every successful record_fees(id, a) adds a to HealthMetrics(id)
\* .fees_generated, which starts from 0, so that after record_fees(id, a_1),
\* ..., record_fees(id, a_k) it is a_1 + ... + a_k; record_drawdown(id, p)
\* overwrites drawdown_percent with p and keeps the fees; neither call changes
\* current_value, initial_value, volatility_exposure or compliance_score of id,
\* nor any field of another commitment's metrics.
C38_FeesAccumulate ==
    [][\A id \in AttestIds :
          /\ (result'.op = "record_fees" /\ result'.err = "ok" /\ result'.id = id) =>
                /\ get_health_metrics_internal(id)'.fees_generated
                      = get_health_metrics_internal(id).fees_generated + result'.args[1]
                /\ get_health_metrics_internal(id)'.drawdown_percent
                      = get_health_metrics_internal(id).drawdown_percent
                /\ KeptByRecording(get_health_metrics_internal(id),
                                   get_health_metrics_internal(id)')
          /\ (result'.op = "record_drawdown" /\ result'.err = "ok" /\ result'.id = id) =>
                /\ get_health_metrics_internal(id)'.drawdown_percent = result'.args[1]
                /\ get_health_metrics_internal(id)'.fees_generated
                      = get_health_metrics_internal(id).fees_generated
                /\ KeptByRecording(get_health_metrics_internal(id),
                                   get_health_metrics_internal(id)')
          /\ (result'.op \in {"record_fees", "record_drawdown"} /\ result'.id # id) =>
                get_health_metrics_internal(id)' = get_health_metrics_internal(id)
          /\ id \notin DOMAIN health_metrics => get_health_metrics_internal(id).fees_generated = 0
      ]_vars

\* the second record_fees of 100 on a commitment has just brought its fees to
\* 200, its drawdown was recorded before, and another commitment has metrics
C38_Witness ==
    /\ result.op = "record_fees"
    /\ result.err = "ok"
    /\ result.args = <<100>>
    /\ result.id \in DOMAIN health_metrics
    /\ health_metrics[result.id].fees_generated = 200
    /\ health_metrics[result.id].drawdown_percent = 15
    /\ \E other \in DOMAIN health_metrics : other # result.id

-----------------------------------------------------------------------------
(* Cached status and fresh checks *)

\* C39: in every state reached from commitments that start active with
\* current_value = amount, the cached status and the fresh loss predicate
\* agree: a commitment has status violated if and only if check_violation
\* holds of its stored current_value (drawdown > max_loss_percent); no
\* reachable state has status active with a stored value in loss violation,
\* nor status violated with a compliant stored value.
C39_StatusAgreesWithLossPredicate ==
    \A id \in Stored :
       /\ commitments[id].status \in {"active", "violated"}
       /\ commitments[id].status = "violated" <=>
             check_violation(commitments[id].amount, commitments[id].current_value,
                             commitments[id].rules.max_loss_percent)
       /\ commitments[id].status = "violated" <=>
             calculate_drawdown_percent(commitments[id].amount, commitments[id].current_value)
                > commitments[id].rules.max_loss_percent

\* a commitment that started with its principal of 10000 as value is violated
\* after an update stored 7500 under a limit of 20%
C39_Witness ==
    /\ result.op = "update_value"
    /\ result.err = "ok"
    /\ result.id \in Stored
    /\ commitments[result.id].status = "violated"
    /\ commitments[result.id].amount = 10000
    /\ commitments[result.id].current_value = 7500
    /\ commitments[result.id].rules.max_loss_percent = 20

====
